---- MODULE Spec2Model ----
(***************************************************************************)
(* GitBot: webhook ingestion (multiWebhook.js), the in-memory mute store   *)
(* (mutes.js) and the digest ring (digest.js).                             *)
(*                                                                         *)
(* A request is one call of a route handler of createWebhookRouter.  Node  *)
(* runs a handler to its next `await`; each action below is one such run.  *)
(* The model follows one request at a time: pc, ev, payload and repo are   *)
(* the locals of the handler in flight, and log is the history of the      *)
(* calls it has made, in code order; they are cleared when it returns.     *)
(***************************************************************************)
EXTENDS Integers, Sequences, FiniteSets, Bags, TLC

\* ---- bounds of the model ------------------------------------------------
MaxReq == 1
MaxTime == 1
MaxDur == 1
MaxMuteDur == 2
MaxPush == 52
MaxRateTime == 5
MaxPollTime == 3
MaxCommits == 2
MaxHistory == 36
MaxProcs == 2
MaxTimers == 2

\* ---- program constants --------------------------------------------------
MAX_ENTRIES == 50

\* ---- values -------------------------------------------------------------
EventTypes == {"ping", "push"}
NoEvent == "-"
NoSecret == ""
NoChannel == ""
NoName == ""
NoRef == ""
NaN == <<>>
Null == <<>>
NoOutcome == ""
Outcomes == {"sent", "dropped", "ignored", "muted"}
NoRepo == [id |-> 0, full_name |-> NoName, is_active |-> FALSE,
           webhook_secret |-> NoSecret, channel_id |-> NoChannel]

\* The repositories table read through database.js.
Repositories ==
  { [id |-> 1, full_name |-> "o/a", is_active |-> TRUE,
     webhook_secret |-> "s1", channel_id |-> "c1"],
    [id |-> 2, full_name |-> "o/b", is_active |-> FALSE,
     webhook_secret |-> "s1", channel_id |-> "c1"],
    [id |-> 3, full_name |-> "o/c", is_active |-> TRUE,
     webhook_secret |-> NoSecret, channel_id |-> NoChannel],
    [id |-> 4, full_name |-> "o/d", is_active |-> TRUE,
     webhook_secret |-> NoSecret, channel_id |-> "c2"] }

\* The legacy config.json as it may be found on disk when it is re-read.
CfgMissing == [loads |-> FALSE, channels |-> {}]
LegacyConfigs ==
  { CfgMissing,
    [loads |-> TRUE, channels |-> {"push"}],
    [loads |-> TRUE, channels |-> {"push", "ping"}] }

VARIABLES now, mutes, ring, stats, db, env, handled, pc, ev, payload, repo, log,
          ret, hist, rateLimits, polling, host, poller, live, procs, indexStats,
          emitted

vars == <<now, mutes, ring, stats, db, env, handled, pc, ev, payload, repo, log,
          ret, hist, rateLimits, polling, host, poller, live, procs, indexStats,
          emitted>>

\* The GitHubPoller object (running, interval, timer), the interval timers
\* that are live in the runtime, and the _poll and pollNow procedures that
\* have been started and not yet returned.
schedVars == <<poller, live, procs>>

\* The state of poller.js and of what it polls: the rateLimits map, the
\* polling columns of the repositories table, and per repository the number
\* of commits the host has (commit n has sha n; the newest is the highest).
pollVars == <<rateLimits, polling, host>>

\* ret is the last call made on a module from outside the webhook handlers
\* and what it returned, observed at the instant of the call; hist remembers,
\* per event type, the time and the duration of the latest mute() call and
\* the expiresAt that call found stored.
callVars == <<ret, hist>>

NoRet == [op |-> "", e |-> "", val |-> <<>>]
NoCall == <<>>

\* ---- mutes.js -----------------------------------------------------------
\* _mutes maps an event type to its expiresAt; 0 stands for "no entry".
NoMute == 0

\* a store that keeps the later of two expiries
muteKeepsLater(m, eventType, durationMs) ==
  [m EXCEPT ![eventType] = IF @ > now + durationMs THEN @ ELSE now + durationMs]

mute(m, eventType, durationMs) == [m EXCEPT ![eventType] = now + durationMs]

unmute(m, eventType) == [m EXCEPT ![eventType] = NoMute]

\* an unmute that reports only the removal of an active mute
unmuteResultActive(m, eventType) == m[eventType] # NoMute /\ ~(now >= m[eventType])

unmuteResult(m, eventType) == m[eventType] # NoMute

\* an expiry test that still mutes at the instant of expiry
isMutedAtExpiry(m, eventType) == m[eventType] # NoMute /\ ~(now > m[eventType])

\* isMuted: the returned boolean, and the store after the lazy eviction.
isMuted(m, eventType) == m[eventType] # NoMute /\ ~(now >= m[eventType])

isMutedStore(m, eventType) ==
  IF m[eventType] # NoMute /\ now >= m[eventType]
  THEN [m EXCEPT ![eventType] = NoMute] ELSE m

\* getMute: the entry's expiresAt, or NoMute for null (the store is evicted as
\* by isMuted).
getMute(m, eventType) == IF isMuted(m, eventType) THEN m[eventType] ELSE NoMute

\* list: the active entries as <<eventType, expiresAt>>, and the pruned store.
list(m) == {<<e, m[e]>> : e \in {x \in DOMAIN m : m[x] # NoMute /\ ~(now >= m[x])}}

listStore(m) == [e \in DOMAIN m |-> IF m[e] # NoMute /\ now >= m[e] THEN NoMute ELSE m[e]]

\* ---- digest.js ----------------------------------------------------------
\* a ring that refuses the new entry when it is full
pushKeepsOldest(rg, eventType, pl, outcome) ==
  IF Len(rg) >= MAX_ENTRIES THEN rg
  ELSE Append(rg, [eventType |-> eventType, outcome |-> outcome, repo |-> pl.full_name])

push(rg, eventType, pl, outcome) ==
  LET entry == [eventType |-> eventType, outcome |-> outcome,
                repo |-> pl.full_name]
      appended == Append(rg, entry)
  IN IF Len(appended) > MAX_ENTRIES THEN Tail(appended) ELSE appended

size(rg) == Len(rg)

Min(a, b) == IF a < b THEN a ELSE b

\* Array.prototype.slice(start): a negative start counts from the end
slice(rg, start) ==
  LET len == Len(rg)
      from == IF start < 0 THEN (IF len + start < 0 THEN 0 ELSE len + start)
              ELSE IF start > len THEN len ELSE start
  IN SubSeq(rg, from + 1, len)

\* a recent that returns the oldest entries
recentOldest(rg, limit) == SubSeq(rg, 1, Min(Min(limit, MAX_ENTRIES), Len(rg)))

recent(rg, limit) == slice(rg, 0 - Min(limit, MAX_ENTRIES))

\* ---- multiWebhook.js: stats --------------------------------------------
\* a recordEvent that counts the outcome and not the event
recordEventOutcomeOnly(st, outcome) ==
  IF outcome = "sent" THEN [st EXCEPT !.eventsSent = @ + 1]
  ELSE IF outcome = "dropped" THEN [st EXCEPT !.eventsDropped = @ + 1]
  ELSE IF outcome = "muted" THEN [st EXCEPT !.eventsMuted = @ + 1]
  ELSE [st EXCEPT !.eventsIgnored = @ + 1]

recordEvent(st, outcome) ==
  LET s1 == [st EXCEPT !.eventsReceived = @ + 1]
  IN IF outcome = "sent" THEN [s1 EXCEPT !.eventsSent = @ + 1]
     ELSE IF outcome = "dropped" THEN [s1 EXCEPT !.eventsDropped = @ + 1]
     ELSE IF outcome = "muted" THEN [s1 EXCEPT !.eventsMuted = @ + 1]
     ELSE [s1 EXCEPT !.eventsIgnored = @ + 1]

\* ---- multiWebhook.js: verifySignature ----------------------------------
\* The HMAC is an abstract injective function of (secret, rawBody); a
\* signature header is the tuple <<"sha256=", secret, body>> it was made from,
\* <<>> when the header is absent, and a one-element tuple when its length
\* differs from the expected one (timingSafeEqual throws).
NoSig == <<>>
ShortSig == <<"sha256=">>
Hmac(secret, rawBody) == <<"sha256=", secret, rawBody>>

verifySignature(rawBody, signature, secret) ==
  IF secret = NoSecret THEN TRUE
  ELSE IF signature = NoSig THEN FALSE
  ELSE LET expected == Hmac(secret, rawBody)
       IN IF Len(signature) # Len(expected) THEN FALSE
          ELSE signature = expected

\* ---- embeds.js: buildEmbed ---------------------------------------------
\* TRUE when an embed is returned, FALSE when buildEmbed returns null: for an
\* event type without a formatter, and when the formatter throws (formatPush
\* on a payload without `ref`).
buildEmbed(eventType, pl) ==
  CASE eventType = "push" -> pl.ref # NoRef
    [] OTHER -> FALSE

\* ---- database.js lookups ------------------------------------------------
getRepositoryById(table, id) ==
  IF \E row \in table : row.id = id[1]
  THEN CHOOSE row \in table : row.id = id[1] ELSE NoRepo

getRepositoryByFullName(table, fullName) ==
  IF \E row \in table : row.full_name = fullName
  THEN CHOOSE row \in table : row.full_name = fullName ELSE NoRepo

\* parseInt(text, 10) on the path segments and the header values of the
\* model.  A number n is <<n>>; NaN is the empty tuple.
parseInt(seg) ==
  CASE seg = "0" -> <<0>>
    [] seg = "1" -> <<1>>
    [] seg = "2" -> <<2>>
    [] seg = "3" -> <<3>>
    [] seg = "4" -> <<4>>
    [] seg = "9" -> <<9>>
    [] seg = "5000" -> <<5000>>
    [] OTHER -> NaN

\* a router without the isNaN check
isNaNNever(n) == FALSE

isNaN(n) == n = NaN

\* ---- poller.js: rate limiting -------------------------------------------
\* rateLimits is the Map of poller.js as a function on the keys the model
\* passes; a key that was never set maps to NoLimit.  The keys are the ids
\* of the github_tokens rows and the token strings themselves, which are the
\* two kinds of value the callers pass as tokenId.
NoLimit == <<>>

\* A response header that is absent (or empty) is falsy in the || of
\* updateRateLimit.
NoHeader == ""

TokenIds == {"1", "2"}

TokenStrings == {"ghp_1", "ghp_2"}

RateKeys == TokenIds \cup TokenStrings

\* n * 1000 on a parsed number; NaN * 1000 is NaN.
Times1000(n) == IF n = NaN THEN NaN ELSE <<n[1] * 1000>>

\* a limiter that counts the reset instant itself as still limited
isRateLimitedAtReset(rl, tokenId) ==
  /\ rl[tokenId] # NoLimit
  /\ rl[tokenId].resetTime # NaN
  /\ now <= rl[tokenId].resetTime[1]

\* Date.now() < limit.resetTime; a comparison with NaN is false.
isRateLimited(rl, tokenId) ==
  /\ rl[tokenId] # NoLimit
  /\ rl[tokenId].resetTime # NaN
  /\ now < rl[tokenId].resetTime[1]

getRemainingRequests(rl, tokenId) ==
  IF rl[tokenId] # NoLimit THEN rl[tokenId].remaining ELSE <<5000>>

\* The map after updateRateLimit(tokenId, headers); the call returns the
\* record it stored.
updateRateLimit(rl, tokenId, headers) ==
  LET remaining == parseInt(IF headers.remaining = NoHeader THEN "5000"
                            ELSE headers.remaining)
      reset == Times1000(parseInt(IF headers.reset = NoHeader THEN "0"
                                  ELSE headers.reset))
  IN  [rl EXCEPT ![tokenId] = [remaining |-> remaining, resetTime |-> reset]]

\* ---- poller.js: the scheduler ---------------------------------------------
\* this.timer = null; a procedure that has returned.
NoTimer == 0
NoProc == <<>>

\* ---- poller.js: what the poller reads ---------------------------------
\* The github_tokens table.
Tokens ==
  { [id |-> "1", token |-> "ghp_1", is_default |-> TRUE],
    [id |-> "2", token |-> "ghp_2", is_default |-> FALSE] }

NoTokenId == ""
NoToken == ""
NoSha == 0
NoError == ""

\* The polling columns of the rows of Repositories as addRepository leaves
\* them: o/a polls with its own token, o/c with the default one, o/d is not
\* polled.
PollRows ==
  [i \in 1..4 |->
     [github_token_id |-> IF i = 1 THEN "2" ELSE NoTokenId,
      poll_enabled |-> i # 4,
      last_commit_sha |-> NoSha,
      last_polled_at |-> Null,
      error_message |-> NoError]]

getTokenById(id) ==
  IF \E t \in Tokens : t.id = id
  THEN (CHOOSE t \in Tokens : t.id = id).token ELSE NoToken

getDefaultToken ==
  IF \E t \in Tokens : t.is_default
  THEN CHOOSE t \in Tokens : t.is_default
  ELSE [id |-> NoTokenId, token |-> NoToken, is_default |-> FALSE]

\* SELECT * FROM repositories WHERE is_active = 1 AND poll_enabled = 1
getPollableRepositories(table, rows) ==
  {row.id : row \in {r \in table : r.is_active /\ rows[r.id].poll_enabled}}

\* db.updateRepository(id, updates): the named columns are replaced.
updateRepository(rows, id, updates) ==
  [rows EXCEPT ![id] =
     [c \in DOMAIN rows[id] |->
        IF c \in DOMAIN updates THEN updates[c] ELSE rows[id][c]]]

\* The token string _pollRepo sends with its requests.
PollToken(row) ==
  LET own == IF row.github_token_id # NoTokenId
             THEN getTokenById(row.github_token_id) ELSE NoToken
  IN  IF own # NoToken THEN own ELSE getDefaultToken.token

\* The key _pollRepo passes to isRateLimited.
PollTokenId(row) ==
  IF row.github_token_id # NoTokenId THEN row.github_token_id
  ELSE getDefaultToken.id

\* ---- inbound requests ---------------------------------------------------
Routes ==
  { [kind |-> "legacy", seg |-> "", name |-> NoName] }
  \cup { [kind |-> "id", seg |-> sg, name |-> NoName] :
           sg \in {"abc", "0", "1", "2", "3", "4", "9"} }
  \cup { [kind |-> "name", seg |-> "", name |-> nm] : nm \in {"o/a", "o/b", "o/x"} }

\* payload.repository.full_name and payload.ref of the parsed body.
Payloads(eventType) ==
  [ full_name : {NoName, "o/a"},
    ref : IF eventType = "push" THEN {"refs/heads/main", NoRef} ELSE {NoRef} ]

\* X-Hub-Signature-256: absent, of a wrong length, made with a repository's
\* secret, made with the global secret, made over another body.
Signatures == {NoSig, ShortSig, Hmac("s1", "b1"), Hmac("g", "b1"), Hmac("s1", "b2")}

\* A request the handlers answer before they read the rest of it is drawn
\* once, not once per value of the parts that are never read.  The requests
\* of Spec carry a JSON body, so req.rawBody is set.
Requests ==
  { [route |-> rt, ready |-> FALSE, event |-> NoEvent, sig |-> NoSig, rawBody |-> "b1",
     payload |-> [full_name |-> NoName, ref |-> NoRef]] : rt \in Routes }
  \cup
  { [route |-> rt, ready |-> TRUE, event |-> NoEvent, sig |-> NoSig, rawBody |-> "b1",
     payload |-> [full_name |-> NoName, ref |-> NoRef]] : rt \in Routes }
  \cup
  UNION { [ route : Routes, ready : {TRUE}, event : {e}, sig : Signatures,
            rawBody : {"b1"}, payload : Payloads(e) ] :
          e \in EventTypes }

\* ---- multiWebhook.js: handlers -----------------------------------------
\* What one synchronous run of a handler leaves behind: the position it
\* stopped at, its call history, the outcome it recorded (if any), the mute
\* store and the repository row it holds.
Run(p, lg, o, m, rp) == [pc |-> p, log |-> lg, outcome |-> o, mutes |-> m, repo |-> rp]

Call(lg, op, arg) == Append(lg, <<op, arg>>)

\* digest.push(eventType, payload, outcome); recordEvent(eventType, outcome); return
Recorded(lg, o, m, rp) ==
  Run("done", Call(Call(lg, "digest.push", o), "recordEvent", o), o, m, rp)

BoolStr(b) == IF b THEN "true" ELSE "false"

\* req.rawBody when express.json parsed no body (no JSON content type, or an
\* empty body): the verify callback never ran and the property is undefined.
NoBody == "-"

\* verifySignature with every way it can end: `crypto.createHmac(...)
\* .update(rawBody)` is evaluated before the try block and throws a TypeError
\* for an undefined rawBody.
verifySignatureOutcome(rawBody, signature, secret) ==
  IF secret = NoSecret THEN "true"
  ELSE IF signature = NoSig THEN "false"
  ELSE IF rawBody = NoBody THEN "throw"
  ELSE BoolStr(verifySignature(rawBody, signature, secret))

HitStr(rp) == IF rp = NoRepo THEN "miss" ELSE "hit"

\* verifySignature as called by a handler: the result, and the call in the log
Verified(lg, secret, sigOk) == Append(lg, <<"verifySignature", secret, BoolStr(sigOk)>>)

\* `if (!verifySignature(...)) return;` of handleLegacyWebhook
LegacyRejects(sigOk) == ~sigOk

handleLegacyWebhook(rq, cfg, lg) ==
  LET sigOk == verifySignature(rq.rawBody, rq.sig, env)
      l1 == Verified(lg, env, sigOk)
  IN IF LegacyRejects(sigOk) THEN Run("done", l1, NoOutcome, mutes, NoRepo)
     ELSE IF ~cfg.loads THEN Recorded(Call(l1, "require", "throw"), "dropped", mutes, NoRepo)
     ELSE IF rq.event \notin cfg.channels
     THEN Recorded(Call(l1, "require", "unmapped"), "ignored", mutes, NoRepo)
     ELSE LET l2 == Call(Call(l1, "require", "mapped"),
                         "mutes.isMuted", BoolStr(isMuted(mutes, rq.event)))
              m2 == isMutedStore(mutes, rq.event)
          IN IF isMuted(mutes, rq.event) THEN Recorded(l2, "muted", m2, NoRepo)
             ELSE IF ~buildEmbed(rq.event, rq.payload)
                  THEN Recorded(Call(l2, "buildEmbed", "null"), "ignored", m2, NoRepo)
                  ELSE Run("getChannel",
                           Call(Call(l2, "buildEmbed", "embed"), "getChannel", "call"),
                           NoOutcome, m2, NoRepo)

\* a handler that ignores the id of the path
TruthyNever(repoId) == FALSE

\* `if (repoId)`: null and 0 are falsy
Truthy(repoId) == repoId # Null /\ repoId[1] # 0

\* a handler without the activity check
InactiveNever(rp) == FALSE

\* `if (!repo.is_active)`
Inactive(rp) == ~rp.is_active

\* a handler that goes on after a failed verification
SignatureRejectsNever(secret, sigOk) == FALSE

\* `if (repo.webhook_secret) { if (!verifySignature(...)) { ...; return; } }`
SignatureRejects(secret, sigOk) == secret # NoSecret /\ ~sigOk

\* a handler without the ping branch
IsPingNever(eventType) == FALSE

\* `if (eventType === "ping")`
IsPing(eventType) == eventType = "ping"

\* `if (!channelId)`
NoChannelConfigured(rp) == rp.channel_id = NoChannel

\* handleResolved with the mute check moved in front of the activity check
handleResolvedMuteFirst(rq, rp, lg) ==
  IF ~IsPing(rq.event) /\ isMuted(mutes, rq.event)
  THEN Recorded(Call(lg, "mutes.isMuted", "true"), "muted", mutes, rp)
  ELSE
  IF Inactive(rp) THEN Recorded(lg, "ignored", mutes, rp)
  ELSE
  LET sigOk == verifySignature(rq.rawBody, rq.sig, rp.webhook_secret)
      l1 == IF rp.webhook_secret # NoSecret
            THEN Verified(lg, rp.webhook_secret, sigOk) ELSE lg
  IN IF SignatureRejects(rp.webhook_secret, sigOk) THEN Recorded(l1, "ignored", mutes, rp)
     ELSE IF IsPing(rq.event)
     THEN Run("pingFetch", Call(l1, "channels.fetch", "call"), NoOutcome, mutes, rp)
     ELSE LET l2 == Call(l1, "mutes.isMuted", "false")
              m2 == isMutedStore(mutes, rq.event)
          IN IF ~buildEmbed(rq.event, rq.payload)
             THEN Recorded(Call(l2, "buildEmbed", "null"), "ignored", m2, rp)
             ELSE IF NoChannelConfigured(rp)
                  THEN Recorded(Call(l2, "buildEmbed", "embed"), "dropped", m2, rp)
                  ELSE Run("fetch",
                           Call(Call(l2, "buildEmbed", "embed"), "channels.fetch", "call"),
                           NoOutcome, m2, rp)

\* the part of handleWebhook after the routing entry was resolved
handleResolved(rq, rp, lg) ==
  IF Inactive(rp) THEN Recorded(lg, "ignored", mutes, rp)
  ELSE
  LET sigOk == verifySignature(rq.rawBody, rq.sig, rp.webhook_secret)
      l1 == IF rp.webhook_secret # NoSecret
            THEN Verified(lg, rp.webhook_secret, sigOk) ELSE lg
  IN IF SignatureRejects(rp.webhook_secret, sigOk) THEN Recorded(l1, "ignored", mutes, rp)
     ELSE IF IsPing(rq.event)
     THEN Run("pingFetch", Call(l1, "channels.fetch", "call"), NoOutcome, mutes, rp)
     ELSE LET l2 == Call(l1, "mutes.isMuted", BoolStr(isMuted(mutes, rq.event)))
              m2 == isMutedStore(mutes, rq.event)
          IN IF isMuted(mutes, rq.event) THEN Recorded(l2, "muted", m2, rp)
             ELSE IF ~buildEmbed(rq.event, rq.payload)
                  THEN Recorded(Call(l2, "buildEmbed", "null"), "ignored", m2, rp)
             ELSE IF NoChannelConfigured(rp)
                  THEN Recorded(Call(l2, "buildEmbed", "embed"), "dropped", m2, rp)
                  ELSE Run("fetch",
                           Call(Call(l2, "buildEmbed", "embed"), "channels.fetch", "call"),
                           NoOutcome, m2, rp)

\* `res.status(200).send("OK")`
Respond200(lg) == Call(lg, "res.status", "200")

\* handleWebhook answering only after the routing entry was looked up
handleWebhookLateResponse(rq, cfg, repoId, lg) ==
  IF ~rq.ready THEN Run("done", Call(lg, "res.status", "503"), NoOutcome, mutes, NoRepo)
  ELSE IF rq.event = NoEvent
  THEN Run("done", Call(lg, "res.status", "400"), NoOutcome, mutes, NoRepo)
  ELSE
  LET rp == IF Truthy(repoId) THEN getRepositoryById(db, repoId)
            ELSE IF rq.payload.full_name # NoName
                 THEN getRepositoryByFullName(db, rq.payload.full_name)
                 ELSE NoRepo
      l1 == IF Truthy(repoId) THEN Call(lg, "getRepositoryById", HitStr(rp))
            ELSE IF rq.payload.full_name # NoName
                 THEN Call(lg, "getRepositoryByFullName", HitStr(rp))
                 ELSE lg
      l2 == Respond200(l1)
  IN IF rp = NoRepo THEN handleLegacyWebhook(rq, cfg, l2)
     ELSE handleResolved(rq, rp, l2)

handleWebhook(rq, cfg, repoId, lg) ==
  IF ~rq.ready THEN Run("done", Call(lg, "res.status", "503"), NoOutcome, mutes, NoRepo)
  ELSE IF rq.event = NoEvent
  THEN Run("done", Call(lg, "res.status", "400"), NoOutcome, mutes, NoRepo)
  ELSE
  LET l1 == Respond200(lg)
      rp == IF Truthy(repoId) THEN getRepositoryById(db, repoId)
            ELSE IF rq.payload.full_name # NoName
                 THEN getRepositoryByFullName(db, rq.payload.full_name)
                 ELSE NoRepo
      l2 == IF Truthy(repoId) THEN Call(l1, "getRepositoryById", HitStr(rp))
            ELSE IF rq.payload.full_name # NoName
                 THEN Call(l1, "getRepositoryByFullName", HitStr(rp))
                 ELSE l1
  IN IF rp = NoRepo THEN handleLegacyWebhook(rq, cfg, l2)
     ELSE handleResolved(rq, rp, l2)

\* the three router.post handlers of createWebhookRouter
routePost(rq, cfg) ==
  CASE rq.route.kind = "legacy" -> handleWebhook(rq, cfg, Null, <<<<"route", "/webhook">>>>)
    [] rq.route.kind = "id" ->
         LET repoId == parseInt(rq.route.seg)
             l0 == << <<"route", "/webhook/:repoId", rq.route.seg>>,
                      <<"parseInt", IF repoId = NaN THEN "NaN"
                                    ELSE IF repoId[1] = 0 THEN "0" ELSE "n">> >>
         IN IF isNaN(repoId)
            THEN Run("done", Call(l0, "res.status", "400"), NoOutcome, mutes, NoRepo)
            ELSE handleWebhook(rq, cfg, repoId, l0)
    [] OTHER ->
         LET repoData == getRepositoryByFullName(db, rq.route.name)
             l0 == << <<"route", "/webhook/:owner/:repo", rq.route.name>>,
                      <<"router.getRepositoryByFullName", HitStr(repoData)>> >>
         IN IF repoData = NoRepo
            THEN Run("done", Call(l0, "res.status", "404"), NoOutcome, mutes, NoRepo)
            ELSE handleWebhook(rq, cfg, <<repoData.id>>, l0)

\* ---- actions ------------------------------------------------------------
\* The modules as loaded, before the tables are read; env and ret are set by
\* the initial condition of each specification.
Constructed ==
  /\ now = 0
  /\ mutes = [e \in EventTypes |-> NoMute]
  /\ db = Repositories
  /\ handled = 0
  /\ pc = "idle"
  /\ ev = NoEvent
  /\ payload = [full_name |-> NoName, ref |-> NoRef]
  /\ repo = NoRepo
  /\ log = <<>>
  /\ hist = [e \in EventTypes |-> NoCall]
  /\ rateLimits = [k \in RateKeys |-> NoLimit]
  /\ poller = [running |-> FALSE, interval |-> 60000, timer |-> NoTimer]
  /\ live = {}
  /\ procs = EmptyBag
  /\ indexStats = [eventsReceived |-> 0, eventsSent |-> 0, eventsDropped |-> 0,
                   eventsIgnored |-> 0, eventsMuted |-> 0, startTime |-> 0]
  /\ emitted = {}

Started ==
  /\ Constructed
  /\ ring = <<>>
  /\ stats = [eventsReceived |-> 0, eventsSent |-> 0, eventsDropped |-> 0,
              eventsIgnored |-> 0, eventsMuted |-> 0]

\* The repositories as addRepository left them; on the host o/a has one
\* commit and the others none.
Loaded ==
  /\ Started
  /\ polling = PollRows
  /\ host = [i \in 1..4 |-> IF i = 1 THEN 1 ELSE 0]

Init ==
  /\ Loaded
  /\ env \in {NoSecret, "g"}
  /\ ret = NoRet

\* The effect of one run of the handler on the state.
Apply(run, e, pl) ==
  /\ pc' = run.pc
  /\ log' = run.log
  /\ repo' = run.repo
  /\ mutes' = run.mutes
  /\ IF run.outcome # NoOutcome
     THEN /\ ring' = push(ring, e, pl, run.outcome)
          /\ stats' = recordEvent(stats, run.outcome)
     ELSE UNCHANGED <<ring, stats>>

\* config.json is read from disk when handleLegacyWebhook gets to `require`:
\* the file found there is drawn for the requests that get that far.
ReadsConfig(rq) ==
  LET lg == routePost(rq, CfgMissing).log
  IN Len(lg) >= 3 /\ lg[Len(lg) - 2] = <<"require", "throw">>

ConfigsRead(rq) == IF ReadsConfig(rq) THEN LegacyConfigs ELSE {CfgMissing}

\* A POST arrives: the route handler runs up to its first await.
Receive ==
  /\ pc = "idle"
  /\ handled < MaxReq
  /\ handled' = handled + 1
  /\ \E rq \in Requests : \E cfg \in ConfigsRead(rq) :
       /\ ev' = rq.event
       /\ payload' = rq.payload
       /\ Apply(routePost(rq, cfg), rq.event, rq.payload)
  /\ UNCHANGED <<now, db, env>>
  /\ UNCHANGED callVars
  /\ UNCHANGED pollVars
  /\ UNCHANGED schedVars
  /\ UNCHANGED <<indexStats, emitted>>

\* handleWebhook, ping branch: `await client.channels.fetch(repo.channel_id)` returns.
PingFetchDone ==
  /\ pc = "pingFetch"
  /\ \E res \in IF repo.channel_id = NoChannel THEN {"null", "throw"}
                ELSE {"ok", "null", "throw"} :
       LET l1 == Call(log, "channels.fetch", res)
       IN IF res = "ok"
          THEN Apply(Run("pingSend", Call(l1, "channel.send", "call"),
                         NoOutcome, mutes, repo), ev, payload)
          ELSE Apply(Recorded(l1, "sent", mutes, repo), ev, payload)
  /\ UNCHANGED <<now, db, env, handled, ev, payload>>
  /\ UNCHANGED callVars
  /\ UNCHANGED pollVars
  /\ UNCHANGED schedVars
  /\ UNCHANGED <<indexStats, emitted>>

\* handleWebhook, ping branch: `await channel.send(...)` returns or throws.
PingSendDone ==
  /\ pc = "pingSend"
  /\ \E res \in {"ok", "throw"} :
       Apply(Recorded(Call(log, "channel.send", res), "sent", mutes, repo), ev, payload)
  /\ UNCHANGED <<now, db, env, handled, ev, payload>>
  /\ UNCHANGED callVars
  /\ UNCHANGED pollVars
  /\ UNCHANGED schedVars
  /\ UNCHANGED <<indexStats, emitted>>

\* a handler that records `sent` also when the send threw
SendOutcomeAlwaysSent(res) == "sent"

\* the outcome after `await channel.send({ embeds: [embed] })`: try / catch
SendOutcome(res) == IF res = "ok" THEN "sent" ELSE "dropped"

\* handleWebhook: `await client.channels.fetch(channelId)` returns.
FetchDone ==
  /\ pc = "fetch"
  /\ \E res \in {"ok", "null", "throw"} :
       LET l1 == Call(log, "channels.fetch", res)
       IN IF res = "ok"
          THEN Apply(Run("send", Call(l1, "channel.send", "call"),
                         NoOutcome, mutes, repo), ev, payload)
          ELSE Apply(Recorded(l1, "dropped", mutes, repo), ev, payload)
  /\ UNCHANGED <<now, db, env, handled, ev, payload>>
  /\ UNCHANGED callVars
  /\ UNCHANGED pollVars
  /\ UNCHANGED schedVars
  /\ UNCHANGED <<indexStats, emitted>>

\* handleWebhook: `await channel.send({ embeds: [embed] })` returns or throws.
SendDone ==
  /\ pc = "send"
  /\ \E res \in {"ok", "throw"} :
       Apply(Recorded(Call(log, "channel.send", res), SendOutcome(res), mutes, repo),
             ev, payload)
  /\ UNCHANGED <<now, db, env, handled, ev, payload>>
  /\ UNCHANGED callVars
  /\ UNCHANGED pollVars
  /\ UNCHANGED schedVars
  /\ UNCHANGED <<indexStats, emitted>>

\* handleLegacyWebhook: `await getChannel(channelName)` returns.
GetChannelDone ==
  /\ pc = "getChannel"
  /\ \E res \in {"ok", "null", "throw"} :
       LET l1 == Call(log, "getChannel", res)
       IN IF res = "ok"
          THEN Apply(Run("legacySend", Call(l1, "channel.send", "call"),
                         NoOutcome, mutes, repo), ev, payload)
          ELSE Apply(Recorded(l1, "dropped", mutes, repo), ev, payload)
  /\ UNCHANGED <<now, db, env, handled, ev, payload>>
  /\ UNCHANGED callVars
  /\ UNCHANGED pollVars
  /\ UNCHANGED schedVars
  /\ UNCHANGED <<indexStats, emitted>>

\* handleLegacyWebhook: `await channel.send({ embeds: [embed] })` returns or throws.
LegacySendDone ==
  /\ pc = "legacySend"
  /\ \E res \in {"ok", "throw"} :
       Apply(Recorded(Call(log, "channel.send", res), SendOutcome(res), mutes, repo),
             ev, payload)
  /\ UNCHANGED <<now, db, env, handled, ev, payload>>
  /\ UNCHANGED callVars
  /\ UNCHANGED pollVars
  /\ UNCHANGED schedVars
  /\ UNCHANGED <<indexStats, emitted>>

\* The handler has returned: its locals are gone.
Return ==
  /\ pc = "done"
  /\ pc' = "idle"
  /\ ev' = NoEvent
  /\ payload' = [full_name |-> NoName, ref |-> NoRef]
  /\ repo' = NoRepo
  /\ log' = <<>>
  /\ UNCHANGED <<now, mutes, ring, stats, db, env, handled>>
  /\ UNCHANGED callVars
  /\ UNCHANGED pollVars
  /\ UNCHANGED schedVars
  /\ UNCHANGED <<indexStats, emitted>>

\* mutes.mute(eventType, durationMs, ...) from the /mute command.
Mute ==
  /\ \E e \in EventTypes, d \in 1..MaxDur : mutes' = mute(mutes, e, d)
  /\ UNCHANGED <<now, ring, stats, db, env, handled, pc, ev, payload, repo, log>>
  /\ UNCHANGED callVars
  /\ UNCHANGED pollVars
  /\ UNCHANGED schedVars
  /\ UNCHANGED <<indexStats, emitted>>

\* mutes.unmute(eventType) from the unmute button.
Unmute ==
  /\ \E e \in EventTypes : mutes' = unmute(mutes, e)
  /\ UNCHANGED <<now, ring, stats, db, env, handled, pc, ev, payload, repo, log>>
  /\ UNCHANGED callVars
  /\ UNCHANGED pollVars
  /\ UNCHANGED schedVars
  /\ UNCHANGED <<indexStats, emitted>>

\* The clock (Date.now()) advances.
Tick ==
  /\ now < MaxTime
  /\ now' = now + 1
  /\ UNCHANGED <<mutes, ring, stats, db, env, handled, pc, ev, payload, repo, log>>
  /\ UNCHANGED callVars
  /\ UNCHANGED pollVars
  /\ UNCHANGED schedVars
  /\ UNCHANGED <<indexStats, emitted>>

Next ==
  \/ Receive
  \/ PingFetchDone
  \/ PingSendDone
  \/ FetchDone
  \/ SendDone
  \/ GetChannelDone
  \/ LegacySendDone
  \/ Return
  \/ Mute
  \/ Unmute
  \/ Tick

Spec == Init /\ [][Next]_vars

webVars == <<ring, stats, db, env, handled, pc, ev, payload, repo, log>>

\* ---- the counters and /clear-stats ----------------------------------------
\* index.js keeps a stats object of its own, beside the one of the webhook
\* module: /status and resetStats() use the first, recordEvent of the
\* handlers and GET /health of the webhook router (mounted before the
\* app's own /health route) the second.
\* The counters GET /health answers.
health(webhookStats) ==
  [eventsReceived |-> webhookStats.eventsReceived,
   eventsSent |-> webhookStats.eventsSent,
   eventsDropped |-> webhookStats.eventsDropped,
   eventsIgnored |-> webhookStats.eventsIgnored,
   eventsMuted |-> webhookStats.eventsMuted]

\* The counters in the embed of /status.
buildStatusEmbed(st) ==
  [eventsReceived |-> st.eventsReceived, eventsSent |-> st.eventsSent,
   eventsDropped |-> st.eventsDropped, eventsIgnored |-> st.eventsIgnored,
   eventsMuted |-> st.eventsMuted]

\* resetStats() at time t.
resetStats(st, t) ==
  [eventsReceived |-> 0, eventsSent |-> 0, eventsDropped |-> 0,
   eventsIgnored |-> 0, eventsMuted |-> 0, startTime |-> t]

\* The button clearstats:confirm.
ClearStatsConfirm ==
  /\ indexStats' = resetStats(indexStats, now)
  /\ ret' = [op |-> "clearstats:confirm", e |-> "", val |-> <<>>]
  /\ UNCHANGED <<now, mutes, hist, webVars, pollVars, schedVars, emitted>>

StatsNext ==
  \/ Receive
  \/ PingFetchDone
  \/ PingSendDone
  \/ FetchDone
  \/ SendDone
  \/ GetChannelDone
  \/ LegacySendDone
  \/ Return
  \/ Mute
  \/ Unmute
  \/ Tick
  \/ ClearStatsConfirm

StatsSpec == Init /\ [][StatsNext]_vars

\* ---- the router with a digest that is nearly full --------------------------
\* The requests of Spec on a router that has sent Prior push events of o/a
\* before: with 49 and 50 of them the next requests fill the ring and make
\* it drop its oldest entry.
Priors == {0, 49, 50}

RouterInit ==
  /\ Constructed
  /\ polling = PollRows
  /\ host = [i \in 1..4 |-> IF i = 1 THEN 1 ELSE 0]
  /\ env \in {NoSecret, "g"}
  /\ ret = NoRet
  /\ \E n \in Priors :
       /\ ring = [k \in 1..n |-> [eventType |-> "push", outcome |-> "sent",
                                  repo |-> "o/a"]]
       /\ stats = [eventsReceived |-> n, eventsSent |-> n, eventsDropped |-> 0,
                   eventsIgnored |-> 0, eventsMuted |-> 0]

RouterNext ==
  \/ Receive
  \/ PingFetchDone
  \/ PingSendDone
  \/ FetchDone
  \/ SendDone
  \/ GetChannelDone
  \/ LegacySendDone
  \/ Return
  \/ Mute
  \/ Unmute
  \/ Tick

RouterSpec == RouterInit /\ [][RouterNext]_vars

\* ---- the mute store on its own -----------------------------------------
\* The operations of mutes.js called in any order at any time, as the slash
\* commands, the buttons and the webhook handlers call them.  Nothing else
\* touches _mutes: there is no timer in mutes.js.
MuteInit == Init /\ env = NoSecret

MuteCall ==
  /\ \E e \in EventTypes, d \in 1..MaxMuteDur :
       /\ mutes' = mute(mutes, e, d)
       /\ hist' = [hist EXCEPT ![e] = <<now, d, mutes[e]>>]
       /\ ret' = [op |-> "mute", e |-> e, val |-> <<now + d>>]
  /\ UNCHANGED <<now, webVars>>
  /\ UNCHANGED pollVars
  /\ UNCHANGED schedVars
  /\ UNCHANGED <<indexStats, emitted>>

UnmuteCall ==
  /\ \E e \in EventTypes :
       /\ mutes' = unmute(mutes, e)
       /\ ret' = [op |-> "unmute", e |-> e, val |-> <<unmuteResult(mutes, e)>>]
  /\ UNCHANGED <<now, hist, webVars>>
  /\ UNCHANGED pollVars
  /\ UNCHANGED schedVars
  /\ UNCHANGED <<indexStats, emitted>>

IsMutedCall ==
  /\ \E e \in EventTypes :
       /\ mutes' = isMutedStore(mutes, e)
       /\ ret' = [op |-> "isMuted", e |-> e, val |-> <<isMuted(mutes, e)>>]
  /\ UNCHANGED <<now, hist, webVars>>
  /\ UNCHANGED pollVars
  /\ UNCHANGED schedVars
  /\ UNCHANGED <<indexStats, emitted>>

GetMuteCall ==
  /\ \E e \in EventTypes :
       /\ mutes' = isMutedStore(mutes, e)
       /\ ret' = [op |-> "getMute", e |-> e, val |-> <<getMute(mutes, e)>>]
  /\ UNCHANGED <<now, hist, webVars>>
  /\ UNCHANGED pollVars
  /\ UNCHANGED schedVars
  /\ UNCHANGED <<indexStats, emitted>>

ListCall ==
  /\ mutes' = listStore(mutes)
  /\ ret' = [op |-> "list", e |-> "", val |-> <<list(mutes)>>]
  /\ UNCHANGED <<now, hist, webVars>>
  /\ UNCHANGED pollVars
  /\ UNCHANGED schedVars
  /\ UNCHANGED <<indexStats, emitted>>

\* The clock advances; what the last call returned is no longer current.
ClockTick ==
  /\ now < MaxTime
  /\ now' = now + 1
  /\ ret' = NoRet
  /\ UNCHANGED <<mutes, hist, webVars>>
  /\ UNCHANGED pollVars
  /\ UNCHANGED schedVars
  /\ UNCHANGED <<indexStats, emitted>>

MuteNext ==
  \/ MuteCall
  \/ UnmuteCall
  \/ IsMutedCall
  \/ GetMuteCall
  \/ ListCall
  \/ ClockTick

MuteSpec == MuteInit /\ [][MuteNext]_vars

\* ---- the digest ring on its own ----------------------------------------
\* Outcomes are recorded one after the other (digest.push followed by
\* recordEvent, as every branch of the handlers does), the n-th for a payload
\* of the repository named ToString(n); /digest and its buttons read the
\* ring with recent(count) and size().
Limits == {-3, 0, 1, 2, 10, 30, 50, 51, 100}

NthPayload(n) == [full_name |-> ToString(n), ref |-> "refs/heads/main"]

DigestInit == Init /\ env = NoSecret

RecordOutcome ==
  /\ stats.eventsReceived < MaxPush
  /\ ring' = push(ring, "push", NthPayload(stats.eventsReceived + 1), "sent")
  /\ stats' = recordEvent(stats, "sent")
  /\ ret' = NoRet
  /\ UNCHANGED <<now, mutes, db, env, handled, pc, ev, payload, repo, log, hist>>
  /\ UNCHANGED pollVars
  /\ UNCHANGED schedVars
  /\ UNCHANGED <<indexStats, emitted>>

RecentCall ==
  /\ \E k \in Limits : ret' = [op |-> "recent", e |-> "", val |-> <<k, recent(ring, k)>>]
  /\ UNCHANGED <<now, mutes, ring, stats, db, env, handled, pc, ev, payload, repo, log, hist>>
  /\ UNCHANGED pollVars
  /\ UNCHANGED schedVars
  /\ UNCHANGED <<indexStats, emitted>>

SizeCall ==
  /\ ret' = [op |-> "size", e |-> "", val |-> <<size(ring)>>]
  /\ UNCHANGED <<now, mutes, ring, stats, db, env, handled, pc, ev, payload, repo, log, hist>>
  /\ UNCHANGED pollVars
  /\ UNCHANGED schedVars
  /\ UNCHANGED <<indexStats, emitted>>

DigestNext ==
  \/ RecordOutcome
  \/ RecentCall
  \/ SizeCall

DigestSpec == DigestInit /\ [][DigestNext]_vars

\* ---- verifySignature on its own ----------------------------------------
\* The arguments the two call sites can pass: req.rawBody (set or not), the
\* X-Hub-Signature-256 header (absent, of another length, or of the expected
\* length) and the secret of the entry or of the environment.
SigBodies == {"b1", "b2", NoBody}

LongSig == <<"sha256=", "s1", "b1", "00">>

SigHeaders ==
  {NoSig, ShortSig, LongSig} \cup {Hmac(sc, b) : sc \in {"s1", "g"}, b \in {"b1", "b2"}}

SigSecrets == {NoSecret, "s1", "g"}

SigInit ==
  /\ Loaded /\ env = NoSecret
  /\ \E b \in SigBodies, sg \in SigHeaders, sc \in SigSecrets :
       ret = [op |-> "arguments", e |-> "", val |-> <<b, sg, sc>>]

VerifyCall ==
  /\ ret.op = "arguments"
  /\ ret' = [op |-> "verifySignature", e |-> "",
             val |-> <<ret.val[1], ret.val[2], ret.val[3],
                       verifySignatureOutcome(ret.val[1], ret.val[2], ret.val[3])>>]
  /\ UNCHANGED <<now, mutes, ring, stats, db, env, handled, pc, ev, payload, repo, log, hist>>
  /\ UNCHANGED pollVars
  /\ UNCHANGED schedVars
  /\ UNCHANGED <<indexStats, emitted>>

SigNext == VerifyCall

SigSpec == SigInit /\ [][SigNext]_vars

\* ---- the rate limiter on its own ---------------------------------------
\* The three exported functions of the rate limiter called in any order at
\* any time, on a row id and on a token string.  The x-ratelimit-reset
\* header counts seconds, Date.now() milliseconds; the clock of this
\* specification advances by half a second.
ClockStep == 500

RateCallKeys == {"1", "ghp_1"}

RateHeaders == [remaining : {NoHeader, "0", "3"}, reset : {NoHeader, "1", "2"}]

RateInit == Init /\ env = NoSecret

UpdateRateLimitCall ==
  /\ \E k \in RateCallKeys, h \in RateHeaders :
       /\ rateLimits' = updateRateLimit(rateLimits, k, h)
       /\ ret' = [op |-> "updateRateLimit", e |-> k,
                  val |-> <<h, updateRateLimit(rateLimits, k, h)[k]>>]
  /\ UNCHANGED <<now, mutes, hist, webVars, polling, host>>
  /\ UNCHANGED schedVars
  /\ UNCHANGED <<indexStats, emitted>>

IsRateLimitedCall ==
  /\ \E k \in RateCallKeys :
       ret' = [op |-> "isRateLimited", e |-> k,
               val |-> <<isRateLimited(rateLimits, k)>>]
  /\ UNCHANGED <<now, mutes, hist, webVars, pollVars>>
  /\ UNCHANGED schedVars
  /\ UNCHANGED <<indexStats, emitted>>

GetRemainingRequestsCall ==
  /\ \E k \in RateCallKeys :
       ret' = [op |-> "getRemainingRequests", e |-> k,
               val |-> <<getRemainingRequests(rateLimits, k)>>]
  /\ UNCHANGED <<now, mutes, hist, webVars, pollVars>>
  /\ UNCHANGED schedVars
  /\ UNCHANGED <<indexStats, emitted>>

RateClock ==
  /\ now < MaxRateTime * ClockStep
  /\ now' = now + ClockStep
  /\ ret' = NoRet
  /\ UNCHANGED <<mutes, hist, webVars, pollVars>>
  /\ UNCHANGED schedVars
  /\ UNCHANGED <<indexStats, emitted>>

RateNext ==
  \/ UpdateRateLimitCall
  \/ IsRateLimitedCall
  \/ GetRemainingRequestsCall
  \/ RateClock

RateSpec == RateInit /\ [][RateNext]_vars

\* ---- the poller -----------------------------------------------------------
\* One _pollRepo at a time, as the loop of _poll awaits each one.  pc is the
\* position of the poll (idle, awaiting the latest commit, awaiting the
\* history), repo the row the poll was handed, log the calls of the poll in
\* order; the log is that of the latest poll.  The host gains commits at any
\* moment.  A response carries the rate-limit headers unless the request
\* failed without one.
HistoryWindow == 30

PollHeaders ==
  { [remaining |-> "3", reset |-> "1"],
    [remaining |-> "0", reset |-> NoHeader] }

Responses ==
  [kind : {"ok", "status"}, headers : PollHeaders]
    \cup {[kind |-> "error", headers |-> [remaining |-> NoHeader, reset |-> NoHeader]]}

\* The row of the repositories table with all its columns.
PollRow(table, rows, i) ==
  LET r == CHOOSE row \in table : row.id = i
  IN  [id |-> i, full_name |-> r.full_name, is_active |-> r.is_active,
       channel_id |-> r.channel_id,
       github_token_id |-> rows[i].github_token_id,
       poll_enabled |-> rows[i].poll_enabled,
       last_commit_sha |-> rows[i].last_commit_sha,
       last_polled_at |-> rows[i].last_polled_at,
       error_message |-> rows[i].error_message]

\* What the host answers to commits?per_page=30: the newest commits first.
History(n) == [k \in 1..Min(n, HistoryWindow) |-> n - k + 1]

getCommitsSince(data, sinceSha) ==
  IF Len(data) = 0 THEN <<>>
  ELSE IF \E k \in DOMAIN data : data[k] = sinceSha
       THEN SubSeq(data, 1, (CHOOSE k \in DOMAIN data : data[k] = sinceSha) - 1)
       ELSE SubSeq(data, 1, Min(5, Len(data)))

\* githubRequest when its response ends: updateRateLimit(token, res.headers).
\* A request that fails without a response updates nothing.
githubRequestDone(rl, token, res) ==
  IF res.kind = "error" THEN rl ELSE updateRateLimit(rl, token, res.headers)

\* latestSha, the sha getLatestCommit returned to the poll of the log.
ArgOfLatest(lg) ==
  (CHOOSE entry \in {lg[i] : i \in DOMAIN lg} : entry[1] = "getLatestCommit")[2]

\* The gate of _pollRepo.
GateCloses(rl, row) ==
  PollTokenId(row) # NoTokenId /\ isRateLimited(rl, PollTokenId(row))

\* a poller that never takes a repository for new
FirstSeenNever(row) == FALSE

\* !repo.last_commit_sha
FirstSeen(row) == row.last_commit_sha = NoSha

\* handlePolledEvent up to its first await, called once per commit of cs.
RECURSIVE onEvents(_, _, _, _)
onEvents(cs, row, m, lg) ==
  IF Len(cs) = 0 THEN [mutes |-> m, log |-> lg]
  ELSE LET l1 == Call(lg, "onEvent", Head(cs))
       IN  IF ~row.is_active \/ row.channel_id = NoChannel
           THEN onEvents(Tail(cs), row, m, l1)
           ELSE IF isMuted(m, "push")
                THEN onEvents(Tail(cs), row, isMutedStore(m, "push"), l1)
                ELSE onEvents(Tail(cs), row, isMutedStore(m, "push"),
                              Call(l1, "channels.fetch", row.channel_id))

\* a catch that records nothing
PollFailedSilently(rows, id) == rows

\* The catch of _pollRepo: the table after it.
PollFailed(rows, id) == updateRepository(rows, id, [error_message |-> "failed"])

\* _pollRepo(row) up to its first await: the token, the gate and the request
\* for the latest commit.
pollRepoBegin(row, rl) ==
  IF PollToken(row) = NoToken
  THEN [pc |-> "idle", log |-> << <<"return", "no token">> >>]
  ELSE IF GateCloses(rl, row)
       THEN [pc |-> "idle", log |-> << <<"return", "rate limited">> >>]
       ELSE [pc |-> "latest",
             log |-> << <<"githubRequest", "commits?per_page=1">> >>]

\* _pollRepo from the answer res to getLatestCommit, when the host's newest
\* commit is latestSha, to its next await or its end at time t.
pollRepoLatest(row, lg, res, latestSha, rows, t) ==
  IF res.kind # "ok"
  THEN [pc |-> "idle", log |-> Call(lg, "throw", "getLatestCommit"),
        polling |-> PollFailed(rows, row.id)]
  ELSE IF latestSha = NoSha
  THEN [pc |-> "idle", log |-> Call(lg, "getLatestCommit", NoSha),
        polling |-> rows]
  ELSE IF FirstSeen(row)
  THEN [pc |-> "idle", log |-> Call(lg, "getLatestCommit", latestSha),
        polling |-> updateRepository(rows, row.id,
                      [last_commit_sha |-> latestSha,
                       last_polled_at |-> <<t>>,
                       error_message |-> NoError])]
  ELSE IF latestSha # row.last_commit_sha
  THEN [pc |-> "commits",
        log |-> Call(Call(lg, "getLatestCommit", latestSha),
                     "githubRequest", "commits?per_page=30"),
        polling |-> rows]
  ELSE [pc |-> "idle", log |-> Call(lg, "getLatestCommit", latestSha),
        polling |-> updateRepository(rows, row.id, [last_polled_at |-> <<t>>])]

\* _pollRepo from the answer res to getCommitsSince, when the host answers
\* the history data, to its end at time t.
pollRepoCommits(row, lg, res, data, rows, m, t) ==
  LET latestSha == ArgOfLatest(lg)
      newCommits == getCommitsSince(data, row.last_commit_sha)
      run == onEvents(SubSeq(newCommits, 1, Min(5, Len(newCommits))), row, m,
                      Call(lg, "getCommitsSince", Len(newCommits)))
  IN  IF res.kind # "ok"
      THEN [pc |-> "idle", log |-> Call(lg, "throw", "getCommitsSince"),
            polling |-> PollFailed(rows, row.id), mutes |-> m]
      ELSE IF Len(newCommits) > 0
      THEN [pc |-> "idle", log |-> run.log,
            polling |-> updateRepository(rows, row.id,
                          [last_commit_sha |-> latestSha,
                           last_polled_at |-> <<t>>,
                           error_message |-> NoError]),
            mutes |-> run.mutes]
      ELSE [pc |-> "idle", log |-> Call(lg, "getCommitsSince", 0),
            polling |-> rows, mutes |-> m]

PollStart ==
  /\ pc = "idle"
  /\ \E i \in getPollableRepositories(db, polling) :
       LET row == PollRow(db, polling, i)
           step == pollRepoBegin(row, rateLimits)
       IN  /\ repo' = row
           /\ pc' = step.pc
           /\ log' = step.log
  /\ UNCHANGED <<now, mutes, ring, stats, db, env, handled, ev, payload>>
  /\ UNCHANGED <<callVars, pollVars>>
  /\ UNCHANGED schedVars
  /\ UNCHANGED <<indexStats, emitted>>

LatestDone ==
  /\ pc = "latest"
  /\ \E res \in Responses :
       LET step == pollRepoLatest(repo, log, res, host[repo.id], polling, now)
       IN  /\ rateLimits' = githubRequestDone(rateLimits, PollToken(repo), res)
           /\ pc' = step.pc
           /\ log' = step.log
           /\ polling' = step.polling
  /\ UNCHANGED <<now, mutes, ring, stats, db, env, handled, ev, payload, repo, host>>
  /\ UNCHANGED callVars
  /\ UNCHANGED schedVars
  /\ UNCHANGED <<indexStats, emitted>>

\* The response to the history request arrives.
CommitsAnswered ==
  /\ pc = "commits"
  /\ \E res \in Responses :
       LET step == pollRepoCommits(repo, log, res, History(host[repo.id]),
                                   polling, mutes, now)
       IN  /\ rateLimits' = githubRequestDone(rateLimits, PollToken(repo), res)
           /\ pc' = step.pc
           /\ log' = step.log
           /\ polling' = step.polling
           /\ mutes' = step.mutes
  /\ UNCHANGED <<now, ring, stats, db, env, handled, ev, payload, repo, host>>
  /\ UNCHANGED callVars
  /\ UNCHANGED schedVars
  /\ UNCHANGED indexStats

CommitsDone == CommitsAnswered /\ UNCHANGED emitted

\* The same step with the commits it called onEvent for added to those of
\* the polls before it.
CommitsDoneCounted ==
  /\ CommitsAnswered
  /\ emitted' = emitted \cup {<<repo.id, log'[i][2]>> :
                                i \in {j \in DOMAIN log' : log'[j][1] = "onEvent"}}

\* handlePolledEvent after its awaits.  onEvent does not return the promise
\* of handlePolledEvent, so each event's channels.fetch and channel.send
\* settle on their own, in any order, after _pollRepo has gone on; they
\* change nothing but the log.  The sends of an earlier poll that are still
\* outstanding when the next poll starts are no longer followed.
Fetching(lg) ==
  IF \E i \in DOMAIN lg : lg[i][1] = "channels.fetch"
  THEN {lg[i][2] : i \in {j \in DOMAIN lg : lg[j][1] = "onEvent"}} ELSE {}

FetchSettled(lg) ==
  {lg[i][2] : i \in {j \in DOMAIN lg : lg[j][1] = "fetch settled"}}

SendSettled(lg) ==
  {lg[i][2] : i \in {j \in DOMAIN lg : lg[j][1] = "send settled"}}

Sending(lg) ==
  {sha \in FetchSettled(lg) :
     \E i \in DOMAIN lg : lg[i] = <<"fetch settled", sha, "found">>}
    \ SendSettled(lg)

PolledFetchDone ==
  /\ \E sha \in Fetching(log) \ FetchSettled(log), res \in {"found", "null", "throw"} :
       log' = Append(log, <<"fetch settled", sha, res>>)
  /\ UNCHANGED <<now, mutes, ring, stats, db, env, handled, pc, ev, payload, repo>>
  /\ UNCHANGED <<callVars, pollVars>>
  /\ UNCHANGED schedVars
  /\ UNCHANGED <<indexStats, emitted>>

PolledSendDone ==
  /\ \E sha \in Sending(log), res \in {"ok", "throw"} :
       log' = Append(log, <<"send settled", sha, res>>)
  /\ UNCHANGED <<now, mutes, ring, stats, db, env, handled, pc, ev, payload, repo>>
  /\ UNCHANGED <<callVars, pollVars>>
  /\ UNCHANGED schedVars
  /\ UNCHANGED <<indexStats, emitted>>

\* A commit is pushed to a polled repository on the host.
HostPush ==
  /\ \E i \in getPollableRepositories(db, polling) :
       /\ host[i] < MaxCommits
       /\ host' = [host EXCEPT ![i] = @ + 1]
  /\ UNCHANGED <<now, mutes, webVars, callVars, rateLimits, polling>>
  /\ UNCHANGED schedVars
  /\ UNCHANGED <<indexStats, emitted>>

PollClock ==
  /\ now < MaxPollTime * ClockStep
  /\ now' = now + ClockStep
  /\ UNCHANGED <<mutes, webVars, callVars, pollVars>>
  /\ UNCHANGED schedVars
  /\ UNCHANGED <<indexStats, emitted>>

PollInit == Init /\ env = NoSecret

PollNext ==
  \/ PollStart
  \/ LatestDone
  \/ CommitsDone
  \/ HostPush
  \/ PollClock

PollSpec == PollInit /\ [][PollNext]_vars

\* The polls together with the sends that handlePolledEvent left behind.
DispatchNext ==
  \/ PollStart
  \/ LatestDone
  \/ CommitsDone
  \/ PolledFetchDone
  \/ PolledSendDone
  \/ HostPush
  \/ PollClock

DispatchSpec == PollInit /\ [][DispatchNext]_vars

\* ---- the diff of a poll ----------------------------------------------------
\* The polls of o/a alone, started with a checkpoint stored by an earlier
\* poll and a host that has up to MaxHistory commits, so that the checkpoint
\* is found near the head of the 30-item window, deep in it, or not at all
\* (more than 30 commits later, or LostSha: a commit the host no longer has
\* after its history was rewritten).  The host may gain commits during a
\* poll.
LostSha == 99

Checkpoints == {1, 3, LostSha}

DiffRows(c) ==
  [i \in 1..4 |->
     [github_token_id |-> IF i = 1 THEN "2" ELSE NoTokenId,
      poll_enabled |-> i = 1,
      last_commit_sha |-> IF i = 1 THEN c ELSE NoSha,
      last_polled_at |-> IF i = 1 THEN <<0>> ELSE Null,
      error_message |-> NoError]]

DiffInit ==
  /\ Started /\ env = NoSecret /\ ret = NoRet
  /\ \E c \in Checkpoints, n \in 1..MaxHistory :
       /\ c \in 1..n \/ c = LostSha
       /\ polling = DiffRows(c)
       /\ host = [i \in 1..4 |-> IF i = 1 THEN n ELSE 0]

\* Commits arrive on the host while a poll awaits a response.
HistoryGrows ==
  /\ pc # "idle"
  /\ host[repo.id] < MaxHistory
  /\ host' = [host EXCEPT ![repo.id] = @ + 1]
  /\ UNCHANGED <<now, mutes, webVars, callVars, rateLimits, polling>>
  /\ UNCHANGED schedVars
  /\ UNCHANGED <<indexStats, emitted>>

DiffNext ==
  \/ PollStart
  \/ LatestDone
  \/ CommitsDone
  \/ HistoryGrows

DiffSpec == DiffInit /\ [][DiffNext]_vars

\* ---- one repository polled again and again ----------------------------------
\* The polls of o/a alone, one after the other, from a checkpoint at the
\* newest commit of the host; the host gains commits at any moment, also
\* between the two requests of a poll, and never loses one.  `emitted` keeps
\* the commits for which earlier polls called onEvent.
GrowInit ==
  /\ Started /\ env = NoSecret /\ ret = NoRet
  /\ polling = DiffRows(MaxHistory - 2)
  /\ host = [i \in 1..4 |-> IF i = 1 THEN MaxHistory - 2 ELSE 0]

\* A commit arrives on the host of o/a.
Arrives ==
  /\ host[1] < MaxHistory
  /\ host' = [host EXCEPT ![1] = @ + 1]
  /\ UNCHANGED <<now, mutes, webVars, callVars, rateLimits, polling>>
  /\ UNCHANGED schedVars
  /\ UNCHANGED <<indexStats, emitted>>

GrowNext ==
  \/ PollStart
  \/ LatestDone
  \/ CommitsDoneCounted
  \/ Arrives

GrowSpec == GrowInit /\ [][GrowNext]_vars

\* ---- the scheduler --------------------------------------------------------
\* start(), stop(), setInterval(ms) and pollNow(name) called in any order,
\* the live timers firing at any moment (a response may take longer than
\* any interval), and the responses of the host arriving in any order.
\* A procedure is one call of _poll or of pollNow: the rows it still has to
\* poll (as read when it started), the row it is polling, its position in
\* _pollRepo (awaiting the latest commit, awaiting the history, or "next":
\* the poll of the row has returned and the loop has not yet gone on), and
\* the log of that poll.  The sends started by handlePolledEvent are not
\* followed here.
Intervals == {1000}

PollNames == {"o/a", "o/d", "o/x"}

SchedResponses ==
  [kind : {"ok", "status"}, headers : {[remaining |-> "3", reset |-> "1"]}]

\* The columns of a row that _pollRepo and the event callback read: a
\* procedure holds the row as it was when the procedure read the table.
Columns(row) ==
  [id |-> row.id, full_name |-> row.full_name, is_active |-> row.is_active,
   channel_id |-> row.channel_id, github_token_id |-> row.github_token_id,
   last_commit_sha |-> row.last_commit_sha]

\* getPollableRepositories() as the list _poll iterates, in table order.
PollableRows(table, rows) ==
  LET ids == SelectSeq(<<1, 2, 3, 4>>,
                       LAMBDA i : i \in getPollableRepositories(table, rows))
  IN  [k \in DOMAIN ids |-> Columns(PollRow(table, rows, ids[k]))]

\* The procedure c goes on to its next row: _pollRepo runs up to its first
\* await, or returns before it; with no row left the procedure returns.
proceed(c, rl) ==
  IF Len(c.queue) = 0 THEN NoProc
  ELSE LET row == Head(c.queue)
           step == pollRepoBegin(row, rl)
       IN  [kind |-> c.kind, queue |-> Tail(c.queue), repo |-> row,
            pc |-> IF step.pc = "idle" THEN "next" ELSE step.pc,
            log |-> step.log]

\* The procedures in flight with c added, unless c has returned.
Put(bag, c) == IF c = NoProc THEN bag ELSE bag (+) SetToBag({c})

\* The procedures in flight when c has gone on to d.
Moved(bag, c, d) == Put(bag (-) SetToBag({c}), d)

\* this._poll(): one more procedure, at the first row of the table.
Poll ==
  /\ BagCardinality(procs) < MaxProcs
  /\ procs' = Put(procs,
       proceed([kind |-> "tick", queue |-> PollableRows(db, polling),
                repo |-> NoRepo, pc |-> "next", log |-> <<>>], rateLimits))

\* The handle setInterval returns: the lowest one that is not live.
NewTimer(tm) ==
  CHOOSE t \in (1..MaxTimers) \ {u.id : u \in tm} :
    \A v \in (1..MaxTimers) \ {u.id : u \in tm} : t <= v

\* a clearInterval that cancels nothing
clearIntervalNever(tm, id) == tm

\* clearInterval(this.timer)
clearInterval(tm, id) == {t \in tm : t.id # id}

\* stop(): the poller object and the live timers after it.
stop(obj, tm) ==
  [poller |-> [obj EXCEPT !.running = FALSE, !.timer = NoTimer],
   live |-> IF obj.timer # NoTimer THEN clearInterval(tm, obj.timer) ELSE tm]

\* start(): nothing on a running poller; otherwise an immediate _poll() and
\* a new interval timer.
StartCall ==
  /\ IF poller.running
     THEN UNCHANGED schedVars
     ELSE /\ Cardinality(live) < MaxTimers
          /\ Poll
          /\ live' = live \cup {[id |-> NewTimer(live), interval |-> poller.interval]}
          /\ poller' = [poller EXCEPT !.running = TRUE, !.timer = NewTimer(live)]
  /\ ret' = NoRet
  /\ UNCHANGED <<now, mutes, hist, webVars, pollVars, indexStats, emitted>>

StopCall ==
  /\ poller' = stop(poller, live).poller
  /\ live' = stop(poller, live).live
  /\ ret' = NoRet
  /\ UNCHANGED <<now, mutes, hist, webVars, pollVars, procs, indexStats, emitted>>

\* setInterval(ms): this.interval = ms, and on a running poller stop()
\* followed by start().
SetIntervalCall ==
  /\ \E ms \in Intervals :
       LET set == [poller EXCEPT !.interval = ms]
           stopped == stop(set, live)
       IN  /\ ret' = [op |-> "setInterval", e |-> "", val |-> <<ms>>]
           /\ IF ~poller.running
              THEN poller' = set /\ UNCHANGED <<live, procs>>
              ELSE /\ Cardinality(stopped.live) < MaxTimers
                   /\ Poll
                   /\ live' = stopped.live
                        \cup {[id |-> NewTimer(stopped.live), interval |-> ms]}
                   /\ poller' = [stopped.poller EXCEPT
                        !.running = TRUE, !.timer = NewTimer(stopped.live)]
  /\ UNCHANGED <<now, mutes, hist, webVars, pollVars, indexStats, emitted>>

\* A live timer fires: () => this._poll().
TimerFire ==
  /\ live # {}
  /\ Poll
  /\ ret' = NoRet
  /\ UNCHANGED <<now, mutes, hist, webVars, pollVars, poller, live, indexStats, emitted>>

\* a pollNow that does not look at poll_enabled
pollNowUnguarded(table, rows, name) ==
  IF getRepositoryByFullName(table, name) = NoRepo
  THEN <<"throw", "not found">> ELSE <<"await", "_pollRepo">>

\* pollNow(repoFullName) up to its await: it throws for an unknown or not
\* polling-enabled repository.
pollNow(table, rows, name) ==
  LET row == getRepositoryByFullName(table, name)
  IN  IF row = NoRepo THEN <<"throw", "not found">>
      ELSE IF ~rows[row.id].poll_enabled
           THEN <<"throw", "not enabled for polling">>
           ELSE <<"await", "_pollRepo">>

\* pollNow(name): unless it throws, one _pollRepo on the row it read.
PollNow(name) ==
  LET row == getRepositoryByFullName(db, name)
      val == pollNow(db, polling, name)
  IN  /\ ret' = [op |-> "pollNow", e |-> name, val |-> val]
      /\ IF val[1] = "throw"
         THEN UNCHANGED procs
         ELSE /\ BagCardinality(procs) < MaxProcs
              /\ procs' = Put(procs,
                   proceed([kind |-> "pollNow",
                            queue |-> <<Columns(PollRow(db, polling, row.id))>>,
                            repo |-> NoRepo, pc |-> "next", log |-> <<>>],
                           rateLimits))

PollNowCall ==
  /\ \E name \in PollNames : PollNow(name)
  /\ UNCHANGED <<now, mutes, hist, webVars, pollVars, poller, live, indexStats, emitted>>

\* The response to the request of procedure p arrives and _pollRepo goes on
\* to its next await or to its end.
ProcLatestDone ==
  /\ \E c \in BagToSet(procs), res \in SchedResponses :
       /\ c.pc = "latest"
       /\ LET step == pollRepoLatest(c.repo, c.log, res, host[c.repo.id],
                                     polling, now)
          IN  /\ rateLimits' = githubRequestDone(rateLimits, PollToken(c.repo), res)
              /\ polling' = step.polling
              /\ procs' = Moved(procs, c,
                    [c EXCEPT !.pc = IF step.pc = "idle" THEN "next" ELSE step.pc,
                              !.log = step.log])
  /\ ret' = NoRet
  /\ UNCHANGED <<now, mutes, hist, webVars, host, poller, live, indexStats, emitted>>

ProcCommitsDone ==
  /\ \E c \in BagToSet(procs), res \in SchedResponses :
       /\ c.pc = "commits"
       /\ LET step == pollRepoCommits(c.repo, c.log, res, History(host[c.repo.id]),
                                      polling, mutes, now)
          IN  /\ rateLimits' = githubRequestDone(rateLimits, PollToken(c.repo), res)
              /\ polling' = step.polling
              /\ mutes' = step.mutes
              /\ procs' = Moved(procs, c, [c EXCEPT !.pc = "next", !.log = step.log])
  /\ ret' = NoRet
  /\ UNCHANGED <<now, hist, webVars, host, poller, live, indexStats, emitted>>

\* The loop of _poll goes on after await this._pollRepo(repo); pollNow,
\* which has no row left, returns.
ProcNext ==
  /\ \E c \in BagToSet(procs) :
       /\ c.pc = "next"
       /\ procs' = Moved(procs, c, proceed(c, rateLimits))
  /\ ret' = NoRet
  /\ UNCHANGED <<now, mutes, hist, webVars, pollVars, poller, live, indexStats, emitted>>

\* The poller is constructed after earlier runs of the program: o/a was
\* polled when it had one commit and has two now, o/c has never been polled
\* and has one commit.
SchedRows ==
  [PollRows EXCEPT ![1] = [@ EXCEPT !.last_commit_sha = 1, !.last_polled_at = <<0>>]]

SchedInit ==
  /\ Started
  /\ env = NoSecret
  /\ ret = NoRet
  /\ polling = SchedRows
  /\ host = [i \in 1..4 |-> IF i = 1 THEN 2 ELSE IF i = 3 THEN 1 ELSE 0]

SchedNext ==
  \/ StartCall
  \/ StopCall
  \/ SetIntervalCall
  \/ TimerFire
  \/ PollNowCall
  \/ ProcLatestDone
  \/ ProcCommitsDone
  \/ ProcNext

SchedSpec == SchedInit /\ [][SchedNext]_vars

\* ---- the scheduler on a host that gains commits ----------------------------
\* The calls, ticks and responses of SchedSpec with o/a alone enabled for
\* polling, its checkpoint at the newest commit of the host, and commits
\* arriving at any moment.
OverlapInit ==
  /\ Started /\ env = NoSecret /\ ret = NoRet
  /\ polling = DiffRows(MaxHistory - 2)
  /\ host = [i \in 1..4 |-> IF i = 1 THEN MaxHistory - 2 ELSE 0]

OverlapNext ==
  \/ StartCall
  \/ StopCall
  \/ SetIntervalCall
  \/ TimerFire
  \/ PollNowCall
  \/ ProcLatestDone
  \/ ProcCommitsDone
  \/ ProcNext
  \/ Arrives

OverlapSpec == OverlapInit /\ [][OverlapNext]_vars

\* ---- the scheduler and pollNow on every repository --------------------------
\* SchedSpec with pollNow called for every repository of the table, o/b
\* included, which is not active and is enabled for polling.
TableNames == {r.full_name : r \in Repositories}

PollNowAnyCall ==
  /\ \E name \in TableNames : PollNow(name)
  /\ UNCHANGED <<now, mutes, hist, webVars, pollVars, poller, live, indexStats, emitted>>

TableNext ==
  \/ StartCall
  \/ StopCall
  \/ SetIntervalCall
  \/ TimerFire
  \/ PollNowAnyCall
  \/ ProcLatestDone
  \/ ProcCommitsDone
  \/ ProcNext

TableSpec == SchedInit /\ [][TableNext]_vars

\* ---- reading a call history --------------------------------------------
Has(lg, entry) == \E i \in DOMAIN lg : lg[i] = entry

Count(lg, entry) == Cardinality({i \in DOMAIN lg : lg[i] = entry})

CallsOf(lg, op) == SelectSeq(lg, LAMBDA x : x[1] = op)

\* the second component of every call of op, in order
ArgsOf(lg, op) == [i \in 1..Len(CallsOf(lg, op)) |-> CallsOf(lg, op)[i][2]]

HasVerifyFalse(lg) ==
  \E i \in DOMAIN lg : lg[i][1] = "verifySignature" /\ lg[i][3] = "false"

CounterOf(o) ==
  CASE o = "sent" -> "eventsSent"
    [] o = "dropped" -> "eventsDropped"
    [] o = "muted" -> "eventsMuted"
    [] OTHER -> "eventsIgnored"

\* This step records outcome o once: one digest entry, one counter increment.
RecordsExactly(o) ==
  /\ ArgsOf(log', "digest.push") = <<o>>
  /\ ArgsOf(log', "recordEvent") = <<o>>
  /\ ring' = Append(ring, [eventType |-> ev', outcome |-> o, repo |-> payload'.full_name])
  /\ stats' = [stats EXCEPT !.eventsReceived = @ + 1, ![CounterOf(o)] = @ + 1]

\* This step ends the request with outcome o.
Ends(o) == pc' = "done" /\ RecordsExactly(o)

\* This step records nothing.
RecordsNothing ==
  /\ ArgsOf(log', "recordEvent") = <<>>
  /\ ArgsOf(log', "digest.push") = <<>>
  /\ UNCHANGED <<ring, stats>>

\* ---- C1 ----------------------------------------------------------------
\* C1: a channel send (the ping confirmation included) for a request
\* resolved to an entry with a non-empty secret happens only after
\* verifySignature with that secret returned true, and on the legacy path
\* with a non-empty global secret only after verifySignature with the global
\* secret returned true; no send follows a failed verification.
SignatureAuthenticated ==
  \A i \in DOMAIN log :
    log[i] = <<"channel.send", "call">> =>
      /\ ~HasVerifyFalse(log)
      /\ (repo # NoRepo /\ repo.webhook_secret # NoSecret) =>
           \E j \in 1..(i - 1) : log[j] = <<"verifySignature", repo.webhook_secret, "true">>
      /\ (repo = NoRepo /\ env # NoSecret) =>
           \E j \in 1..(i - 1) : log[j] = <<"verifySignature", env, "true">>

SignedSendReached ==
  /\ pc = "send"
  /\ repo.webhook_secret = "s1"
  /\ Has(log, <<"verifySignature", "s1", "true">>)
  /\ Has(log, <<"channel.send", "call">>)

\* ---- C2 ----------------------------------------------------------------
\* C2: a request that resolves to an inactive entry ends in the same run
\* with outcome `ignored` recorded once (one digest entry, one counter
\* increment) and makes no channel fetch and no channel send, whatever its
\* event type and signature.
InactiveIgnored ==
  [][ (handled' # handled /\ repo' # NoRepo /\ ~repo'.is_active) =>
        /\ Ends("ignored")
        /\ \A i \in DOMAIN log' :
             log'[i][1] \notin {"channels.fetch", "channel.send", "getChannel"} ]_vars

InactiveIgnoredReached ==
  /\ pc = "done"
  /\ repo # NoRepo /\ ~repo.is_active
  /\ ev = "push"
  /\ Len(ring) > 0 /\ ring[Len(ring)].outcome = "ignored"
  /\ stats.eventsIgnored > 0

\* ---- C3 ----------------------------------------------------------------
\* C3: a ping that resolves to an active entry and passes the signature
\* check never consults the mute store; the entry's channel is fetched once,
\* the confirmation is sent on the channel the fetch yields, and `sent` is
\* recorded once, in every state of the mute store.
PingRequestAccepted ==
  /\ pc # "idle" /\ ev = "ping"
  /\ repo # NoRepo /\ repo.is_active
  /\ ~HasVerifyFalse(log)

PingBypassesMute ==
  PingRequestAccepted =>
    /\ \A i \in DOMAIN log : log[i][1] # "mutes.isMuted"
    /\ pc \in {"pingFetch", "pingSend", "done"}
    /\ Count(log, <<"channels.fetch", "call">>) = 1
    /\ Count(log, <<"channel.send", "call">>) =
         (IF Has(log, <<"channels.fetch", "ok">>) THEN 1 ELSE 0)
    /\ pc = "done" =>
         /\ ArgsOf(log, "recordEvent") = <<"sent">>
         /\ ArgsOf(log, "digest.push") = <<"sent">>
         /\ ring[Len(ring)] = [eventType |-> "ping", outcome |-> "sent",
                               repo |-> payload.full_name]
    /\ pc # "done" => ArgsOf(log, "recordEvent") = <<>>

MutedPingSent ==
  /\ PingRequestAccepted
  /\ pc = "done"
  /\ isMuted(mutes, "ping") /\ isMuted(mutes, "push")
  /\ Has(log, <<"channel.send", "ok">>)
  /\ stats.eventsSent > 0

\* ---- C4 ----------------------------------------------------------------
\* C4: on every ingestion path a ping is never recorded with outcome
\* `muted` or `dropped`.
PingNeverMutedOrDropped ==
  ev = "ping" =>
    /\ ~Has(log, <<"recordEvent", "muted">>)
    /\ ~Has(log, <<"recordEvent", "dropped">>)

\* ---- C5 ----------------------------------------------------------------
\* C5: when the signature check fails, on the per-repository path and on
\* the legacy path alike, `ignored` is recorded for the request.
SignatureFailureIgnored ==
  (pc = "done" /\ HasVerifyFalse(log)) =>
    /\ ArgsOf(log, "recordEvent") = <<"ignored">>
    /\ ArgsOf(log, "digest.push") = <<"ignored">>

\* ---- C6 ----------------------------------------------------------------
\* C6: every request answered with HTTP 200 has, when its handler is done,
\* recorded exactly one outcome: one recordEvent call, one digest push.
ExactlyOneOutcome ==
  (pc = "done" /\ Has(log, <<"res.status", "200">>)) =>
    /\ Len(CallsOf(log, "recordEvent")) = 1
    /\ Len(CallsOf(log, "digest.push")) = 1

\* ---- C7 ----------------------------------------------------------------
\* C7: no request attempts more than one channel lookup or more than one
\* channel send.  For an event that reaches the dispatch step (an embed was
\* built): without a configured channel the outcome is `dropped` and neither
\* a lookup nor a send is made; a failed lookup gives `dropped` without a
\* send; a send that throws gives `dropped` and is not repeated; a send that
\* succeeds gives `sent`; and `sent` is recorded only after a successful send.
LookupFailed(lg) ==
  \/ Has(lg, <<"channels.fetch", "null">>) \/ Has(lg, <<"channels.fetch", "throw">>)
  \/ Has(lg, <<"getChannel", "null">>) \/ Has(lg, <<"getChannel", "throw">>)

IsProcessing(entry) ==
  entry[1] \in {"router.getRepositoryByFullName", "getRepositoryById",
                "getRepositoryByFullName", "verifySignature", "require",
                "mutes.isMuted", "buildEmbed", "channels.fetch", "getChannel",
                "channel.send", "digest.push", "recordEvent"}

RespondsBeforeLookup ==
  (pc # "idle" /\ ev # NoEvent) =>
    /\ ArgsOf(log, "res.status") = <<"200">>
    /\ \A i \in DOMAIN log :
         IsProcessing(log[i]) => \E j \in 1..(i - 1) : log[j] = <<"res.status", "200">>

\* C9 as amended: exactly one response; unless the router itself rejected
\* the path (400 for a non-numeric id, 404 for an unknown owner/repo) it is
\* 200 whatever the outcome, and it precedes handleWebhook's lookup of the
\* entry, the signature check and every channel send; on /webhook and
\* /webhook/:repoId nothing is looked up before it, on /webhook/:owner/:repo
\* only the router's lookup by name is.
RespondsBeforeProcessing ==
  (pc # "idle" /\ ev # NoEvent) =>
    /\ Len(CallsOf(log, "res.status")) = 1
    /\ \/ ArgsOf(log, "res.status") = <<"200">>
       \/ /\ ArgsOf(log, "res.status") = <<"400">>
          /\ Has(log, <<"parseInt", "NaN">>)
          /\ pc = "done" /\ ~\E i \in DOMAIN log : IsProcessing(log[i])
       \/ /\ ArgsOf(log, "res.status") = <<"404">>
          /\ Has(log, <<"router.getRepositoryByFullName", "miss">>)
          /\ pc = "done" /\ ArgsOf(log, "recordEvent") = <<>>
    /\ \A i \in DOMAIN log :
         (IsProcessing(log[i]) /\ log[i][1] # "router.getRepositoryByFullName")
           => \E j \in 1..(i - 1) : log[j][1] = "res.status"
    /\ \A i \in DOMAIN log :
         log[i][1] = "router.getRepositoryByFullName" =>
           /\ i = 2 /\ log[1][1] = "route" /\ log[1][2] = "/webhook/:owner/:repo"
           /\ log[3][1] = "res.status"

DroppedAfterOk ==
  /\ pc = "done" /\ ev = "push"
  /\ log[2] = <<"router.getRepositoryByFullName", "hit">>
  /\ log[3] = <<"res.status", "200">>
  /\ ArgsOf(log, "recordEvent") = <<"dropped">>

\* ---- C10 ---------------------------------------------------------------
\* C10 as stated (with the client ready): a numeric id that resolves to no
\* entry is answered 400; a request without the event-type header is
\* answered 400; an unknown owner/repo is answered 404, no outcome recorded.
ClientReady(lg) == ~Has(lg, <<"res.status", "503">>)

UnresolvedIdIs400 ==
  (pc = "done" /\ ClientReady(log)) =>
    /\ Has(log, <<"getRepositoryById", "miss">>) => ArgsOf(log, "res.status") = <<"400">>
    /\ (ev = NoEvent /\ ~Has(log, <<"router.getRepositoryByFullName", "miss">>))
         => ArgsOf(log, "res.status") = <<"400">>
    /\ Has(log, <<"router.getRepositoryByFullName", "miss">>) =>
         /\ ArgsOf(log, "res.status") = <<"404">>
         /\ ArgsOf(log, "recordEvent") = <<>>

\* C10 as amended: an id that does not parse to a number is answered 400
\* with nothing looked up or recorded; a numeric id that resolves to no
\* entry (or is 0) is answered like a POST /webhook: 200 when the event-type
\* header is present, and the request goes on to the legacy handler unless
\* (id 0) its payload names an entry; without the header the answer is 400;
\* an unknown owner/repo is answered 404 and records no outcome.
ErrorStatus ==
  (pc = "done" /\ ClientReady(log)) =>
    /\ Has(log, <<"parseInt", "NaN">>) =>
         /\ ArgsOf(log, "res.status") = <<"400">>
         /\ ~\E i \in DOMAIN log : IsProcessing(log[i])
    /\ (Has(log, <<"getRepositoryById", "miss">>) \/ Has(log, <<"parseInt", "0">>)) =>
         /\ ArgsOf(log, "res.status") = <<IF ev = NoEvent THEN "400" ELSE "200">>
         /\ ev # NoEvent =>
              \/ Has(log, <<"verifySignature", env, "true">>)
              \/ Has(log, <<"verifySignature", env, "false">>)
              \/ Has(log, <<"parseInt", "0">>) /\ repo.full_name = payload.full_name
                                               /\ repo # NoRepo
    /\ (ev = NoEvent /\ ~Has(log, <<"router.getRepositoryByFullName", "miss">>)) =>
         /\ ArgsOf(log, "res.status") = <<"400">>
         /\ ArgsOf(log, "recordEvent") = <<>>
    /\ Has(log, <<"router.getRepositoryByFullName", "miss">>) =>
         /\ ArgsOf(log, "res.status") = <<"404">>
         /\ ArgsOf(log, "recordEvent") = <<>>
         /\ ArgsOf(log, "digest.push") = <<>>

UnknownIdAnswered200 ==
  /\ pc = "done"
  /\ Has(log, <<"getRepositoryById", "miss">>)
  /\ ArgsOf(log, "res.status") = <<"200">>
  /\ ArgsOf(log, "recordEvent") = <<"dropped">>

\* ---- C11 ---------------------------------------------------------------
\* what the path of the request in flight carries
PathKind == IF log = <<>> THEN "" ELSE log[1][2]

PathId == IF PathKind = "/webhook/:repoId" THEN parseInt(log[1][3]) ELSE Null

\* the path carries an id other than 0
PathIdGiven == PathId # Null /\ PathId[1] # 0

PathName == IF PathKind = "/webhook/:owner/:repo" THEN log[1][3] ELSE NoName

PayloadEntry ==
  IF payload.full_name = NoName THEN NoRepo
  ELSE getRepositoryByFullName(db, payload.full_name)

Answered200 == pc # "idle" /\ Has(log, <<"res.status", "200">>)

LegacyCalled == \E i \in DOMAIN log : log[i][1] = "verifySignature" /\ log[i][2] = env

\* C11 as stated: the legacy fallback is used only when none of the id in the
\* path, the owner/name in the path and the repository named in the payload
\* yields an entry.
ResolutionFallsThrough ==
  (Answered200 /\ LegacyCalled) =>
    /\ ~Has(log, <<"getRepositoryById", "hit">>)
    /\ ~Has(log, <<"router.getRepositoryByFullName", "hit">>)
    /\ PayloadEntry = NoRepo

\* C11 as amended: one source is chosen by what the path carries and only
\* that one is looked up: a non-zero id in the path, by id; an owner/name in
\* the path, by name and then by the id of the entry found; otherwise the
\* repository named in the payload.  The legacy fallback is used exactly when
\* the chosen lookup yields no entry, so also for an id that matches nothing
\* while the payload names a registered repository.
ChosenEntry ==
  IF PathIdGiven THEN getRepositoryById(db, PathId)
  ELSE IF PathKind = "/webhook/:owner/:repo" THEN getRepositoryByFullName(db, PathName)
  ELSE PayloadEntry

ResolutionOrder ==
  Answered200 =>
    /\ repo = ChosenEntry
    /\ LegacyCalled <=> ChosenEntry = NoRepo
    /\ (PathKind # "/webhook" /\ ~(PathKind = "/webhook/:repoId" /\ ~PathIdGiven))
         => ~\E i \in DOMAIN log : log[i][1] = "getRepositoryByFullName"
    /\ PathKind = "/webhook/:owner/:repo" =>
         /\ log[2] = <<"router.getRepositoryByFullName", "hit">>
         /\ Has(log, <<"getRepositoryById", "hit">>)
    /\ (PathKind = "/webhook" \/ (PathKind = "/webhook/:repoId" /\ ~PathIdGiven)) =>
         /\ ~\E i \in DOMAIN log : log[i][1] = "getRepositoryById"
         /\ Count(log, <<"getRepositoryByFullName", HitStr(PayloadEntry)>>) =
              (IF payload.full_name = NoName THEN 0 ELSE 1)

PathIdWins ==
  /\ Answered200
  /\ PathKind = "/webhook/:repoId"
  /\ payload.full_name = "o/a"
  /\ repo # NoRepo /\ repo.full_name = "o/c"

\* ---- C12 ---------------------------------------------------------------
\* the latest mute(e, d) was called at hist[e][1] with d = hist[e][2]
MuteElapsed(h, t, e) == h[e] # NoCall /\ t >= h[e][1] + h[e][2]

\* C12: isMuted(e) called right after mute(e, d), at the same instant,
\* returns true; and once the clock has reached the time of the latest
\* mute(e, d) plus d, isMuted(e) returns false, getMute(e) returns null and
\* list() does not contain e, whatever was called on the store in between;
\* the store has no step of its own.
MuteExpires ==
  [][ /\ (ret.op = "mute" /\ ret'.op = "isMuted" /\ ret'.e = ret.e) => ret'.val = <<TRUE>>
      /\ \A e \in EventTypes : MuteElapsed(hist', now', e) =>
           /\ (ret'.op = "isMuted" /\ ret'.e = e) => ret'.val = <<FALSE>>
           /\ (ret'.op = "getMute" /\ ret'.e = e) => ret'.val = <<NoMute>>
           /\ ret'.op = "list" => ~\E x \in ret'.val[1] : x[1] = e
    ]_vars

ExpiredMuteListed ==
  /\ ret.op = "list"
  /\ MuteElapsed(hist, now, "push")
  /\ ~MuteElapsed(hist, now, "ping") /\ hist["ping"] # NoCall
  /\ ret.val = << {<<"ping", mutes["ping"]>>} >>

\* ---- C13 ---------------------------------------------------------------
\* C13: a mute(e, d) call leaves the store with the entry of e expiring at
\* now + d, whatever entry of e it found (a later expiry included), and
\* leaves the entry of every other event type as it was; the store has one
\* slot per event type.
MuteReplaces ==
  [][ ret'.op = "mute" =>
        /\ hist'[ret'.e][1] = now
        /\ mutes'[ret'.e] = now + hist'[ret'.e][2]
        /\ ret'.val = <<now + hist'[ret'.e][2]>>
        /\ \A x \in EventTypes \ {ret'.e} : mutes'[x] = mutes[x]
        /\ DOMAIN mutes' = EventTypes
    ]_vars

MuteShortened ==
  /\ ret.op = "mute" /\ ret.e = "push"
  /\ hist["push"][3] # NoMute
  /\ mutes["push"] < hist["push"][3]
  /\ mutes["ping"] # NoMute

\* ---- C14 ---------------------------------------------------------------
\* C14: unmute(e) returns true exactly when an entry of e was stored (an
\* expired entry not yet evicted included), leaves no entry of e and every
\* other entry as it was; right after it isMuted(e) returns false and a
\* second unmute(e) returns false.
UnmuteRemoves ==
  [][ /\ ret'.op = "unmute" =>
           /\ ret'.val = <<mutes[ret'.e] # NoMute>>
           /\ mutes'[ret'.e] = NoMute
           /\ \A x \in EventTypes \ {ret'.e} : mutes'[x] = mutes[x]
      /\ (ret.op = "unmute" /\ ret'.op = "unmute" /\ ret'.e = ret.e) => ret'.val = <<FALSE>>
      /\ (ret.op = "unmute" /\ ret'.op = "isMuted" /\ ret'.e = ret.e) => ret'.val = <<FALSE>>
    ]_vars

ExpiredEntryUnmuted ==
  /\ ret = [op |-> "unmute", e |-> "push", val |-> <<TRUE>>]
  /\ MuteElapsed(hist, now, "push")
  /\ mutes["push"] = NoMute
  /\ mutes["ping"] # NoMute

\* ---- C15 ---------------------------------------------------------------
\* the entry of the n-th push
NthEntry(n) == [eventType |-> "push", outcome |-> "sent", repo |-> ToString(n)]

\* C15: size() never exceeds 50; after n pushes it is min(n, 50); after
\* n > 50 pushes the ring, and so recent(50), is exactly the entries of
\* pushes n-49 .. n in push order and holds none of the entries of pushes
\* 1 .. n-50.
RingBounded ==
  LET n == stats.eventsReceived
  IN /\ size(ring) <= 50
     /\ size(ring) = (IF n > 50 THEN 50 ELSE n)
     /\ ret.op = "size" => ret.val = <<IF n > 50 THEN 50 ELSE n>>
     /\ n > 50 =>
          /\ ring = [i \in 1..50 |-> NthEntry(n - 50 + i)]
          /\ \A j \in 1..(n - 50) : \A i \in DOMAIN ring : ring[i] # NthEntry(j)
          /\ (ret.op = "recent" /\ ret.val[1] = 50) =>
               ret.val[2] = [i \in 1..50 |-> NthEntry(n - 50 + i)]

RingWrapped ==
  /\ stats.eventsReceived = 52
  /\ ret.op = "recent" /\ ret.val[1] = 50
  /\ ret.val[2][1] = NthEntry(3) /\ ret.val[2][50] = NthEntry(52)

\* ---- C16 ---------------------------------------------------------------
\* C16: recent(k) with 1 <= k <= size() returns the k entries pushed last,
\* in push order; with k > size() it returns all size() entries in push
\* order; a recent call leaves the ring as it was.
RecentSlice ==
  /\ [](ret.op = "recent" =>
          LET k == ret.val[1]
              r == ret.val[2]
              n == stats.eventsReceived
          IN /\ (1 <= k /\ k <= size(ring)) =>
                  /\ Len(r) = k
                  /\ \A i \in 1..k : r[i] = NthEntry(n - k + i)
             /\ k > size(ring) =>
                  /\ Len(r) = size(ring)
                  /\ \A i \in 1..Len(r) : r[i] = NthEntry(n - Len(r) + i))
  /\ [][ret'.op = "recent" => ring' = ring]_vars

RecentBeyondSize ==
  /\ ret.op = "recent" /\ ret.val[1] = 100
  /\ size(ring) = 30
  /\ Len(ret.val[2]) = 30
  /\ ret.val[2][1] = NthEntry(1) /\ ret.val[2][30] = NthEntry(30)

\* ---- C17 ---------------------------------------------------------------
\* C17: verifySignature returns true when the secret is empty; false when
\* the secret is non-empty and the header is absent; otherwise it returns,
\* and returns true exactly when the header is "sha256=" + HMAC(secret,
\* rawBody); a header of another length gives false, never an exception.
SignatureVerdict ==
  ret.op = "verifySignature" =>
    LET b == ret.val[1]
        sg == ret.val[2]
        sc == ret.val[3]
        r == ret.val[4]
    IN /\ sc = NoSecret => r = "true"
       /\ (sc # NoSecret /\ sg = NoSig) => r = "false"
       /\ (sc # NoSecret /\ sg # NoSig) =>
            /\ r \in {"true", "false"}
            /\ r = "true" <=> sg = <<"sha256=", sc, b>>
       /\ (sc # NoSecret /\ sg # NoSig /\ Len(sg) # 3) => r = "false"

\* ---- C18 ----------------------------------------------------------------
\* The number a header of the model stands for.
HeaderNumber(h) ==
  CASE h = "0" -> 0 [] h = "1" -> 1 [] h = "2" -> 2 [] h = "3" -> 3

\* C18: isRateLimited(c) answers true exactly when a record is stored for c
\* and its reset instant is strictly later than the clock, whatever the
\* remaining count is; without a record getRemainingRequests(c) answers
\* 5000; updateRateLimit(c, headers) replaces the record of c by the values
\* of the headers (remaining as sent, reset in milliseconds), whatever was
\* stored, touches no other key, and getRemainingRequests(c) then answers
\* the header's remaining value.
RateLimiterContract ==
  /\ [](/\ ret.op = "isRateLimited" =>
            ret.val[1] = (/\ rateLimits[ret.e] # NoLimit
                          /\ now < rateLimits[ret.e].resetTime[1])
        /\ (ret.op = "getRemainingRequests" /\ rateLimits[ret.e] = NoLimit) =>
            ret.val[1] = <<5000>>
        /\ (ret.op = "getRemainingRequests" /\ rateLimits[ret.e] # NoLimit) =>
            ret.val[1] = rateLimits[ret.e].remaining)
  /\ [][ret'.op = "updateRateLimit" =>
         LET h == ret'.val[1] IN
           /\ h.remaining # NoHeader =>
                /\ rateLimits'[ret'.e].remaining = <<HeaderNumber(h.remaining)>>
                /\ getRemainingRequests(rateLimits', ret'.e)
                     = <<HeaderNumber(h.remaining)>>
           /\ h.remaining = NoHeader => rateLimits'[ret'.e].remaining = <<5000>>
           /\ h.reset # NoHeader =>
                rateLimits'[ret'.e].resetTime = <<HeaderNumber(h.reset) * 1000>>
           /\ h.reset = NoHeader => rateLimits'[ret'.e].resetTime = <<0>>
           /\ \A k \in RateKeys \ {ret'.e} : rateLimits'[k] = rateLimits[k]]_vars

\* isRateLimited answered false at the reset instant itself, for a record
\* whose remaining count is 0.
NotLimitedAtReset ==
  /\ ret.op = "isRateLimited"
  /\ ret.val[1] = FALSE
  /\ rateLimits[ret.e] # NoLimit
  /\ rateLimits[ret.e].remaining = <<0>>
  /\ rateLimits[ret.e].resetTime = <<now>>
  /\ now > 0

\* ---- C19 ----------------------------------------------------------------
\* The rate state recorded from the responses to the requests made with the
\* token of the row, read as isRateLimited reads it.
RecordedLimit(rl, row) ==
  /\ rl[PollToken(row)] # NoLimit
  /\ now < rl[PollToken(row)].resetTime[1]

\* C19: the gate of a poll reads the rate state recorded from the responses
\* to the requests made with the repository's token: a poll that finds a
\* recorded reset instant in the future is skipped, it makes no API call and
\* leaves the row of the repository as it was.
RecordedLimitSkipsPoll ==
  [][(pc = "idle" /\ repo' # repo /\ RecordedLimit(rateLimits, repo'))
       => /\ pc' = "idle"
          /\ ~Has(log', <<"githubRequest", "commits?per_page=1">>)
          /\ polling' = polling]_vars

\* ---- C20 ----------------------------------------------------------------
\* C20: when the poll of a repository without a stored checkpoint is
\* answered the latest commit c, the checkpoint becomes c, the time of the
\* poll is stored, the error message is cleared, nothing else of the table
\* changes, and the poll ends without a call of onEvent and without a
\* request for the history.
FirstPollInitializes ==
  [][(/\ pc = "latest"
      /\ polling[repo.id].last_commit_sha = NoSha
      /\ host[repo.id] # NoSha
      /\ Has(log', <<"getLatestCommit", host[repo.id]>>))
       => /\ polling'[repo.id].last_commit_sha = host[repo.id]
          /\ polling'[repo.id].last_polled_at = <<now>>
          /\ polling'[repo.id].error_message = NoError
          /\ polling'[repo.id].github_token_id = polling[repo.id].github_token_id
          /\ polling'[repo.id].poll_enabled = polling[repo.id].poll_enabled
          /\ \A j \in DOMAIN polling \ {repo.id} : polling'[j] = polling[j]
          /\ \A i \in DOMAIN log' : log'[i][1] # "onEvent"
          /\ ~Has(log', <<"githubRequest", "commits?per_page=30">>)
          /\ pc' = "idle"]_vars

\* A first poll that stored the checkpoint of a repository whose earlier
\* poll had failed, and cleared the error.
FirstPollClearedError ==
  /\ pc = "idle"
  /\ repo # NoRepo
  /\ repo.last_commit_sha = NoSha
  /\ repo.error_message = "failed"
  /\ Len(log) = 2
  /\ log[2] = <<"getLatestCommit", host[repo.id]>>
  /\ polling[repo.id].last_commit_sha = host[repo.id]
  /\ polling[repo.id].last_commit_sha # NoSha
  /\ polling[repo.id].last_polled_at = <<now>>
  /\ now > 0
  /\ polling[repo.id].error_message = NoError

\* ---- C21 ----------------------------------------------------------------
\* The window the host answers with when the history response arrives, the
\* stored checkpoint of the polled row, and the step in which a poll is
\* answered its history.
Window == History(host[repo.id])

Stored == polling[repo.id].last_commit_sha

FoundAt == CHOOSE k \in DOMAIN Window : Window[k] = Stored

CheckpointFound == \E k \in DOMAIN Window : Window[k] = Stored

HistoryAnswered ==
  /\ pc = "commits"
  /\ pc' = "idle"
  /\ ~Has(log', <<"throw", "getCommitsSince">>)

Distinct(q) == \A i, j \in DOMAIN q : q[i] = q[j] => i = j

\* C21: when the stored checkpoint is found in the window with p newer
\* commits before it, the poll synthesizes min(p, 5) events, each for a
\* different one of the p newer commits, and stores the newest commit of
\* the window as the checkpoint.
DeltaSynthesized ==
  [][(HistoryAnswered /\ CheckpointFound)
       => LET p == FoundAt - 1
              events == ArgsOf(log', "onEvent")
          IN  /\ Len(events) = Min(p, 5)
              /\ \A i \in DOMAIN events : \E k \in 1..p : events[i] = Window[k]
              /\ Distinct(events)
              /\ polling'[repo.id].last_commit_sha = Window[1]]_vars

\* ---- C22 ----------------------------------------------------------------
\* C22: the events of one poll are handed to onEvent oldest commit first,
\* newest commit last.
EventsOldestFirst ==
  [][HistoryAnswered
       => LET events == ArgsOf(log', "onEvent")
          IN  \A i, j \in DOMAIN events : i < j => events[i] < events[j]]_vars

\* ---- C23 ----------------------------------------------------------------
\* C23: when the stored checkpoint is nowhere in the window, the poll
\* synthesizes events for the min(5, window length) most recent commits and
\* no others, records no error and stores the newest commit of the window as
\* the checkpoint.
FallbackSynthesized ==
  [][(HistoryAnswered /\ ~CheckpointFound)
       => LET events == ArgsOf(log', "onEvent")
              m == Min(5, Len(Window))
          IN  /\ Len(events) = m
              /\ {events[i] : i \in DOMAIN events} = {Window[k] : k \in 1..m}
              /\ polling'[repo.id].error_message = NoError
              /\ polling'[repo.id].last_commit_sha = Window[1]]_vars

\* ---- C25 ----------------------------------------------------------------
\* A poll ends in this step with every fetch answered and a latest commit
\* on the host.
PollSucceeds ==
  /\ pc # "idle"
  /\ pc' = "idle"
  /\ \A i \in DOMAIN log' : log'[i][1] # "throw"
  /\ \E i \in DOMAIN log' : log'[i][1] = "getLatestCommit" /\ log'[i][2] # NoSha

\* C25: after a poll in which every fetch succeeded (first observation,
\* unchanged checkpoint or changed checkpoint) the error message of the
\* repository is null.
SuccessfulPollClearsError ==
  [][PollSucceeds => polling'[repo.id].error_message = NoError]_vars

\* ---- C29 ----------------------------------------------------------------
\* No channels.fetch and no channel.send of the latest poll is outstanding.
AllSettled(lg) == Fetching(lg) \subseteq FetchSettled(lg) /\ Sending(lg) = {}

\* C29: every event a poll synthesizes leaves one entry in the digest ring
\* and one recorded outcome in the counters: once the poll is over and its
\* sends have settled, the ring and the counters hold at least the events
\* of that poll.
PolledEventsRecorded ==
  (pc = "idle" /\ AllSettled(log))
    => /\ Len(ring) >= Len(ArgsOf(log, "onEvent"))
       /\ stats.eventsReceived >= Len(ArgsOf(log, "onEvent"))
       /\ stats.eventsSent + stats.eventsDropped + stats.eventsIgnored
            + stats.eventsMuted >= Len(ArgsOf(log, "onEvent"))

\* ---- C30 ----------------------------------------------------------------
\* C30: a poll writes its new checkpoint only after the channels.fetch and
\* the channel.send of every event it synthesized have settled.
CheckpointAfterSends ==
  [][(HistoryAnswered /\ polling'[repo.id].last_commit_sha # Stored)
       => AllSettled(log')]_vars

\* ---- C24 ------------------------------------------------------------------
\* C24: when the fetch of the latest commit or of the history fails in the
\* poll of a repository R, that step sets R's error message, leaves R's
\* checkpoint as it was and ends the poll with no event; the procedure keeps
\* the rows it has still to poll, and the only step it takes afterwards is
\* the poll of the next of them.
Threw(lg) == Len(lg) > 0 /\ lg[Len(lg)][1] = "throw"

NoOnEvent(lg) == \A i \in DOMAIN lg : lg[i][1] # "onEvent"

FetchFails(c, d) ==
  /\ c.pc \in {"latest", "commits"}
  /\ d.kind = c.kind /\ d.repo = c.repo
  /\ Threw(d.log)
  /\ procs' = Moved(procs, c, d)

GoesOn(c, d) ==
  /\ d.kind = c.kind
  /\ d.queue = Tail(c.queue)
  /\ d.repo = Head(c.queue)
  /\ d.log \in {<< <<"githubRequest", "commits?per_page=1">> >>,
                << <<"return", "rate limited">> >>,
                << <<"return", "no token">> >>}
  /\ procs' = Moved(procs, c, d)

FetchFailureContained ==
  [][/\ \A c \in BagToSet(procs), d \in BagToSet(procs') :
         FetchFails(c, d) =>
           /\ polling'[c.repo.id].error_message # NoError
           /\ polling'[c.repo.id].last_commit_sha
                = polling[c.repo.id].last_commit_sha
           /\ NoOnEvent(d.log)
           /\ d.pc = "next"
           /\ d.queue = c.queue
     /\ \A c \in BagToSet(procs) :
         (c.pc = "next" /\ Threw(c.log) /\ Len(c.queue) > 0
            /\ CopiesIn(c, procs') < CopiesIn(c, procs))
           => \E d \in BagToSet(procs') : GoesOn(c, d)]_vars

\* A tick in which the poll of o/a failed is polling o/c.
FailedThenNextPolled ==
  /\ polling[1].error_message # NoError
  /\ polling[1].last_commit_sha = 1
  /\ polling[3].last_polled_at = Null
  /\ \E c \in BagToSet(procs) :
       c.kind = "tick" /\ c.repo.id = 3 /\ c.pc = "latest"
  /\ BagCardinality(procs) = 1

\* ---- C26 ------------------------------------------------------------------
\* C26: at any time at most one procedure is between the start and the end
\* of _pollRepo for a given repository.
InFlight(c) == c.pc \in {"latest", "commits"}

AtMostOnePollPerRepository ==
  \A c \in BagToSet(procs), d \in BagToSet(procs) :
    (InFlight(c) /\ InFlight(d) /\ c.repo.id = d.repo.id)
      => (c = d /\ CopiesIn(c, procs) = 1)

\* ---- C27 ------------------------------------------------------------------
\* C27: after any start(), stop() and setInterval(ms) calls there is at most
\* one live interval timer: a running poller has exactly the timer it holds,
\* with the period it holds, and a stopped poller has none, so that no tick
\* is started until the next start().
OneLiveTimer ==
  /\ Cardinality(live) <= 1
  /\ poller.running
       => live = {[id |-> poller.timer, interval |-> poller.interval]}
  /\ ~poller.running => (live = {} /\ poller.timer = NoTimer)

\* setInterval(1000) has restarted a running poller, whose immediate poll
\* runs beside the one that start() began.
TimerRestarted ==
  /\ ret.op = "setInterval"
  /\ poller.running
  /\ live = {[id |-> poller.timer, interval |-> 1000]}
  /\ BagCardinality(procs) = 2

\* ---- C28 ------------------------------------------------------------------
\* C28: pollNow(name) throws and changes nothing, and sends no request, when
\* no repository has the name or the repository is not polling-enabled;
\* otherwise it starts one procedure that polls that repository like a tick
\* whose list is that one row, and no other.
Refused(name) ==
  \/ ~\E r \in db : r.full_name = name
  \/ \E r \in db : r.full_name = name /\ ~polling[r.id].poll_enabled

AsTick(name) ==
  LET r == CHOOSE row \in db : row.full_name = name
  IN  proceed([kind |-> "tick", queue |-> <<Columns(PollRow(db, polling, r.id))>>,
               repo |-> NoRepo, pc |-> "next", log |-> <<>>], rateLimits)

PollNowContract ==
  [][ret'.op = "pollNow" =>
       IF Refused(ret'.e)
       THEN /\ ret'.val[1] = "throw"
            /\ UNCHANGED <<now, mutes, hist, webVars, pollVars, schedVars>>
       ELSE /\ ret'.val[1] = "await"
            /\ AsTick(ret'.e).queue = <<>>
            /\ procs' = procs (+) SetToBag({[AsTick(ret'.e) EXCEPT !.kind = "pollNow"]})
            /\ UNCHANGED <<now, mutes, hist, webVars, pollVars, poller, live>>]_vars

\* pollNow("o/d") has thrown for the repository that is not polling-enabled
\* while the one poll of an earlier pollNow("o/a") awaits the host.
PollNowRefusedAndPolling ==
  /\ ret.op = "pollNow" /\ ret.e = "o/d"
  /\ ret.val = <<"throw", "not enabled for polling">>
  /\ \E c \in BagToSet(procs) :
       c.kind = "pollNow" /\ c.repo.id = 1 /\ c.pc = "latest" /\ c.queue = <<>>

\* ---- C31 ------------------------------------------------------------------
\* C31: after the confirmation of /clear-stats the five counters that
\* /status shows and the five that GET /health answers are all 0, and the
\* digest buffer and the mutes are as they were.
Zeroed(counters) ==
  \A k \in DOMAIN counters : counters[k] = 0

ClearStatsZeroesCounters ==
  [][ClearStatsConfirm =>
       /\ Zeroed(buildStatusEmbed(indexStats'))
       /\ Zeroed(health(stats'))
       /\ ring' = ring
       /\ mutes' = mutes]_vars

\* ---- C32 ------------------------------------------------------------------
\* C32: in every state of the router eventsReceived is the sum of the four
\* outcome counters, the digest holds min(50, eventsReceived) entries, and
\* the entries with an outcome tag are as many as the counter of that
\* outcome says, or the last 50 of them.
Tagged(o) == Len(SelectSeq(ring, LAMBDA en : en.outcome = o))

CountersBalance ==
  /\ stats.eventsReceived
       = stats.eventsSent + stats.eventsDropped + stats.eventsIgnored
         + stats.eventsMuted
  /\ size(ring) = Min(MAX_ENTRIES, stats.eventsReceived)
  /\ \A o \in Outcomes :
       /\ Tagged(o) <= stats[CounterOf(o)]
       /\ stats.eventsReceived <= MAX_ENTRIES => Tagged(o) = stats[CounterOf(o)]

\* The ring was full when a request was recorded with another outcome than
\* sent: the oldest entry has gone.
RecordedOnFullRing ==
  /\ stats.eventsReceived = MAX_ENTRIES + 1
  /\ size(ring) = MAX_ENTRIES
  /\ stats.eventsSent = MAX_ENTRIES
  /\ ring[MAX_ENTRIES].outcome # "sent"

\* ---- C33 ------------------------------------------------------------------
\* C33: a request (a ping included) is recorded as sent only when a channel
\* send for it has completed without throwing.
SentOnlyAfterSend ==
  [][stats'.eventsSent = stats.eventsSent + 1
       => Has(log', <<"channel.send", "ok">>)]_vars

\* ---- C34 ------------------------------------------------------------------
\* C34: unmute(e) returns true only when isMuted(e) would have returned true
\* at the call; for an entry that has expired and is still stored it
\* returns false.
UnmuteTrueOnlyIfActive ==
  [][(ret'.op = "unmute" /\ mutes' = unmute(mutes, ret'.e)
        /\ ret'.val = <<TRUE>>)
       => isMuted(mutes, ret'.e)]_vars

\* ---- C35 ------------------------------------------------------------------
\* C35: recent(limit) returns at most max(limit, 0) entries; for limit = 0
\* and for a negative limit it returns none.
RecentAtMostLimit ==
  ret.op = "recent"
    => Len(ret.val[2]) <= (IF ret.val[1] > 0 THEN ret.val[1] ELSE 0)

\* ---- C36 ------------------------------------------------------------------
\* C36: with polls of one repository that do not overlap and a host whose
\* history only grows, no poll calls onEvent for a commit for which an
\* earlier poll has called it.
EachCommitOnce ==
  [][\A i \in DOMAIN log' :
       (pc = "commits" /\ log'[i][1] = "onEvent")
         => <<repo.id, log'[i][2]>> \notin emitted]_vars

\* ---- C37 ------------------------------------------------------------------
\* C37: on a host whose history only grows no step stores a checkpoint
\* older than the one it replaces, whatever ticks, restarts of the timer and
\* pollNow calls are in progress.
CheckpointNeverBackwards ==
  [][\A i \in 1..4 :
       polling'[i].last_commit_sha >= polling[i].last_commit_sha]_vars

\* ---- C38 ------------------------------------------------------------------
\* C38: no procedure, of a tick or of pollNow, polls a repository that is
\* not active, and the checkpoint of such a repository stays as it was.
OnlyActivePolled ==
  /\ \A c \in BagToSet(procs) : c.repo.is_active
  /\ \A r \in db :
       ~r.is_active
         => polling[r.id].last_commit_sha = SchedRows[r.id].last_commit_sha

\* C39: an event (other than ping) is not posted while its type is muted:
\* whenever handleWebhook passes from the channel lookup to channel.send, no
\* mute of the event's type placed before that step is still active, whatever
\* mute actions ran while the request was suspended at the lookup.
BeginsSend == pc = "fetch" /\ pc' = "send"

NotPostedWhileMuted == [][BeginsSend => ~isMuted(mutes, ev)]_vars

====
